---------------------------- MODULE Spec2Model ----------------------------
(***************************************************************************)
(* A model of the HTTP connection core of aws-c-http                       *)
(* (source/connection.c): the connection factory, the connection           *)
(* reference count, configure_server, the client connect path and the      *)
(* server listener path.                                                   *)
(*                                                                         *)
(* The channel runtime and the client/server bootstraps (aws-c-io) are the *)
(* environment.  Their inputs to the core -- error codes, channels, the    *)
(* moment a callback fires -- are chosen nondeterministically within the   *)
(* contract the core's own comments state: the setup callback of a channel *)
(* runs once, the shutdown callback of a channel runs once and only after  *)
(* its setup callback returned, listener-destroy runs once, after          *)
(* destroy_socket_listener and after every accepted channel shut down.     *)
(***************************************************************************)
EXTENDS Integers, Sequences, FiniteSets, TLC

VARIABLES
    \* ---- client connect path ----
    cl_pc,            \* per attempt: where the attempt is
    http_bootstrap,   \* per attempt: struct aws_http_client_bootstrap
    cl_channel,       \* per attempt: the channel the bootstrap set up
    cl_conn,          \* per attempt: the connection object built in the channel
    cl_events,        \* per attempt: the user callbacks invoked, in order
    cl_user_refs,     \* per attempt: references to the connection the user holds
    cl_shutdown_error, \* per attempt: error_code the channel-shutdown callback got
    cl_call,          \* per attempt: what client_connect was given and what it did
    cl_setup_error,   \* per attempt: error_code the channel-setup callback got
    \* ---- the connection factory, called on its own ----
    f_in,             \* the arguments of s_connection_new and what its callees answer
    f_out,            \* what s_connection_new returned and left behind
    f_done,           \* s_connection_new has run
    f_uses,           \* calls made on the connection the factory returned
    \* ---- configure_server, called on its own ----
    cfg_conn,         \* the connection configure_server is called on
    cfg_last,         \* the last call: its arguments, the connection before, the result
    cfg_calls,        \* number of calls made
    cfg_successes,    \* number of calls that returned AWS_OP_SUCCESS
    \* ---- the reference count of one connection, used by several threads ----
    rc_conn,          \* the connection
    rc_channel,       \* its channel
    rc_pc,            \* per thread: where it is inside aws_http_connection_release
    rc_held,          \* per thread: the references it holds
    rc_acquires,      \* number of acquire calls made
    \* ---- server listener path ----
    server,           \* struct aws_http_server, and whether its memory is live
    lock,             \* server->synced_data.lock: the thread that holds it
    channel_to_connection_map,   \* server->synced_data.channel_to_connection_map
    new_pc,           \* where aws_http_server_new is
    listener,         \* the bootstrap's listening socket
    srv_pc,           \* per accepted channel: where its callbacks are
    srv_channel,      \* per accepted channel: the channel
    srv_conn,         \* per accepted channel: the connection built in it
    srv_local,        \* per accepted channel: the locals of the running callback
    srv_events,       \* per accepted channel: the user callbacks invoked, in order
    rel_pc,           \* per server_release call: where it is
    rel_local,        \* per server_release call: its locals
    srv_calls,        \* what the server has been seen to do (counters)
    \* ---- string utilities, called on their own ----
    su_buf,           \* the bytes the cursor points into
    su_pc,            \* which utility has been called
    su_out,           \* what s_read_unsigned returned and stored in *dst
    su_view,          \* the cursor trim_http_whitespace returned
    su_view2          \* the cursor it returned when applied to su_view

cl_vars ==
    <<cl_pc, http_bootstrap, cl_channel, cl_conn, cl_events, cl_user_refs,
      cl_shutdown_error, cl_call, cl_setup_error>>

f_vars == <<f_in, f_out, f_done, f_uses>>

cfg_vars == <<cfg_conn, cfg_last, cfg_calls, cfg_successes>>

rc_vars == <<rc_conn, rc_channel, rc_pc, rc_held, rc_acquires>>

srv_vars ==
    <<server, lock, channel_to_connection_map, new_pc, listener, srv_pc, srv_channel,
      srv_conn, srv_local, srv_events, rel_pc, rel_local, srv_calls>>

su_vars == <<su_buf, su_pc, su_out, su_view, su_view2>>

vars == <<cl_vars, f_vars, cfg_vars, rc_vars, srv_vars, su_vars>>

-----------------------------------------------------------------------------
(* Bounds                                                                  *)

MaxAttempts == 1

\* Calls made on a connection after the factory returned it.
MaxFactoryUses == 2

\* Longest byte string handed to the string utilities.
MaxStrLen == 3

\* Width of the unsigned word the string utilities compute in (uint64_t,
\* scaled down).
WordBits == 8

\* configure_server calls made on one connection.
MaxConfigureCalls == 3

\* Threads using one connection, and acquire calls they make in all.
MaxThreads == 3

MaxAcquires == 4

\* Channels the listener accepts, server_release calls the user makes, and
\* configure_server calls the user makes inside one on_incoming_connection.
MaxChannels == 2

MaxReleases == 2

MaxConfigureInCallback == 1

\* Acquire calls the user makes on one connection handle it was given.
MaxUserAcquires == 1

\* configure_server calls the user makes on one server connection after its
\* on_incoming_connection callback returned.
MaxLateConfigures == 1

-----------------------------------------------------------------------------
(* Error codes.  AWS_ERROR_SUCCESS is C's 0; every other code is non-zero. *)

AWS_ERROR_SUCCESS == "AWS_ERROR_SUCCESS"
AWS_ERROR_UNKNOWN == "AWS_ERROR_UNKNOWN"
AWS_ERROR_OOM == "AWS_ERROR_OOM"
AWS_ERROR_INVALID_ARGUMENT == "AWS_ERROR_INVALID_ARGUMENT"
AWS_ERROR_INVALID_STATE == "AWS_ERROR_INVALID_STATE"
AWS_ERROR_OVERFLOW_DETECTED == "AWS_ERROR_OVERFLOW_DETECTED"
AWS_ERROR_HTTP_CONNECTION_CLOSED == "AWS_ERROR_HTTP_CONNECTION_CLOSED"
AWS_ERROR_HTTP_UNSUPPORTED_PROTOCOL == "AWS_ERROR_HTTP_UNSUPPORTED_PROTOCOL"
AWS_ERROR_HTTP_REACTION_REQUIRED == "AWS_ERROR_HTTP_REACTION_REQUIRED"

\* Error codes the channel runtime hands to a callback (socket and TLS errors).
IoErrors == {"AWS_IO_SOCKET_CLOSED", "AWS_IO_TLS_ERROR_NEGOTIATION_FAILURE"}

\* C's truth value of an int error code.
IsError(error_code) == error_code # AWS_ERROR_SUCCESS

-----------------------------------------------------------------------------
(* HTTP versions and ALPN protocol strings (byte strings are sequences of  *)
(* byte values).                                                           *)

AWS_HTTP_VERSION_UNKNOWN == "AWS_HTTP_VERSION_UNKNOWN"
AWS_HTTP_VERSION_1_0 == "AWS_HTTP_VERSION_1_0"
AWS_HTTP_VERSION_1_1 == "AWS_HTTP_VERSION_1_1"
AWS_HTTP_VERSION_2 == "AWS_HTTP_VERSION_2"

s_alpn_protocol_http_1_1 == <<104, 116, 116, 112, 47, 49, 46, 49>>   \* "http/1.1"
s_alpn_protocol_http_2 == <<104, 50>>                                \* "h2"

\* The protocols a TLS handler may report: none, the two known ones, and
\* strings that are near the known ones (a prefix, an extension, another
\* case, another minor version).
AlpnProtocols ==
    { <<>>,
      s_alpn_protocol_http_1_1,
      s_alpn_protocol_http_2,
      <<104>>,                                   \* "h"
      <<104, 50, 99>>,                           \* "h2c"
      <<72, 50>>,                                \* "H2"
      <<104, 116, 116, 112, 47, 49, 46, 48>>,    \* "http/1.0"
      <<104, 116, 116, 112, 47, 49, 46, 49, 49>>,\* "http/1.11"
      <<115, 112, 100, 121>> }                   \* "spdy"

\* aws_string_eq_byte_buf: same length and the same bytes.
aws_string_eq_byte_buf(str, buf) ==
    /\ Len(str) = Len(buf)
    /\ \A i \in 1..Len(str) : str[i] = buf[i]

\* A plausible slip: comparing only the first Len(str) bytes (strncmp-like).
aws_string_eq_byte_buf_prefix(str, buf) ==
    /\ Len(str) <= Len(buf)
    /\ \A i \in 1..Len(str) : str[i] = buf[i]

\* The version the factory picks once it has found the TLS handler (or needs
\* none): the body of "Determine HTTP version".
s_determine_version_prefix(is_using_tls, protocol) ==
    IF ~is_using_tls THEN AWS_HTTP_VERSION_1_1
    ELSE IF Len(protocol) # 0
         THEN IF aws_string_eq_byte_buf_prefix(s_alpn_protocol_http_1_1, protocol)
              THEN AWS_HTTP_VERSION_1_1
              ELSE IF aws_string_eq_byte_buf_prefix(s_alpn_protocol_http_2, protocol)
                   THEN AWS_HTTP_VERSION_2
                   ELSE AWS_HTTP_VERSION_1_1
         ELSE AWS_HTTP_VERSION_1_1

s_determine_version(is_using_tls, protocol) ==
    IF ~is_using_tls THEN AWS_HTTP_VERSION_1_1
    ELSE IF Len(protocol) # 0
         THEN IF aws_string_eq_byte_buf(s_alpn_protocol_http_1_1, protocol)
              THEN AWS_HTTP_VERSION_1_1
              ELSE IF aws_string_eq_byte_buf(s_alpn_protocol_http_2, protocol)
                   THEN AWS_HTTP_VERSION_2
                   ELSE AWS_HTTP_VERSION_1_1
         ELSE AWS_HTTP_VERSION_1_1

-----------------------------------------------------------------------------
(* Channels and connections                                                *)

\* A channel: its pipeline of slots from left to right (each slot holds a
\* handler or none), the protocol its TLS handler negotiated, the holds
\* taken on it, and the error codes aws_channel_shutdown was called with.
NoChannel ==
    [exists |-> FALSE, slots |-> <<>>, alpn |-> <<>>, holds |-> 0, shutdown |-> <<>>]

PlainChannel ==
    [exists |-> TRUE, slots |-> <<"socket">>, alpn |-> <<>>, holds |-> 0,
     shutdown |-> <<>>]

TlsChannel(protocol) ==
    [exists |-> TRUE, slots |-> <<"socket", "tls">>, alpn |-> protocol, holds |-> 0,
     shutdown |-> <<>>]

\* A channel whose last slot has no handler yet, and one with no slot at all.
BareChannels ==
    { [exists |-> TRUE, slots |-> <<"none">>, alpn |-> <<>>, holds |-> 0,
       shutdown |-> <<>>],
      [exists |-> TRUE, slots |-> <<>>, alpn |-> <<>>, holds |-> 0,
       shutdown |-> <<>>] }

\* The channels a bootstrap hands to a setup callback: with TLS, a channel
\* whose TLS handler negotiated nothing, a known protocol or an unknown one,
\* or a channel that lacks the TLS handler.
BootstrapProtocols ==
    {<<>>, s_alpn_protocol_http_1_1, s_alpn_protocol_http_2, <<104, 50, 99>>}

ChannelsFor(is_using_tls) ==
    IF is_using_tls
    THEN {TlsChannel(p) : p \in BootstrapProtocols} \cup BareChannels
    ELSE {PlainChannel}

aws_channel_shutdown(channel, error_code) ==
    [channel EXCEPT !.shutdown = Append(@, error_code)]

\* A plausible slip: the factory returns without taking its channel hold.
aws_channel_acquire_hold_none(channel) == channel

aws_channel_acquire_hold(channel) == [channel EXCEPT !.holds = @ + 1]

aws_channel_release_hold(channel) == [channel EXCEPT !.holds = @ - 1]

\* struct aws_http_connection.  server_data tells the role; channel_slot is
\* the index of the connection's slot in the pipeline (0: null).
NoConnection ==
    [exists |-> FALSE, http_version |-> AWS_HTTP_VERSION_UNKNOWN, server_data |-> FALSE,
     channel_slot |-> 0, refcount |-> 0, user_data |-> "none",
     on_incoming_request |-> "NULL", on_shutdown |-> "NULL"]

\* aws_http_connection_new_http1_1_server / _client: a fresh connection
\* with refcount 1 and no callbacks.
NewConnection(version, is_server) ==
    [exists |-> TRUE, http_version |-> version, server_data |-> is_server,
     channel_slot |-> 0, refcount |-> 1, user_data |-> "none",
     on_incoming_request |-> "NULL", on_shutdown |-> "NULL"]

\* What can go wrong inside the factory, as the callees report it.
FactoryFaults == {"none", "slot_new", "slot_insert_end", "connection_new", "slot_set_handler"}

FactoryEnvs == [fault : FactoryFaults, err : {AWS_ERROR_OOM}]

\* A plausible slip: the error path leaves the slot in the channel.
aws_channel_slot_remove_kept(channel, slot) == channel

\* aws_channel_slot_remove: the channel without its slot number slot.
aws_channel_slot_remove(channel, slot) ==
    [channel EXCEPT !.slots = SubSeq(@, 1, slot - 1) \o SubSeq(@, slot + 1, Len(@))]

\* A plausible slip: the assertion is compiled out and the HTTP/2 engine is
\* constructed.
h2_fatal_assert_removed(version) == FALSE

\* "case AWS_HTTP_VERSION_2: AWS_FATAL_ASSERT(false && ...)"
h2_fatal_assert(version) == version = AWS_HTTP_VERSION_2

\* s_connection_new.  The result: ok (a connection is returned), fatal (the
\* fatal assertion fired), the channel as the factory leaves it, the
\* connection, the version chosen ("none" before a version was chosen), the
\* thread's last error on failure, whether an engine was destroyed and
\* whether the new slot was removed.
s_connection_new(channel, is_server, is_using_tls, env) ==
    LET with_slot == [channel EXCEPT !.slots = Append(@, "none")]
        slot == Len(with_slot.slots)
        left_has_handler == slot > 1 /\ with_slot.slots[slot - 1] # "none"
        version == s_determine_version(is_using_tls, channel.alpn)
        \* The code after "error:" with connection_slot set: inserted tells
        \* whether the slot is in the pipeline, built whether an engine exists.
        failed(inserted, built, chosen, err) ==
            [ok |-> FALSE, fatal |-> FALSE,
             channel |-> IF inserted THEN aws_channel_slot_remove(with_slot, slot)
                         ELSE channel,
             connection |-> NoConnection, version |-> chosen, last_error |-> err,
             handler_destroyed |-> built /\ with_slot.slots[slot] = "none",
             slot_removed |-> TRUE]
    IN  IF env.fault = "slot_new" THEN
            [ok |-> FALSE, fatal |-> FALSE, channel |-> channel,
             connection |-> NoConnection, version |-> "none", last_error |-> env.err,
             handler_destroyed |-> FALSE, slot_removed |-> FALSE]
        ELSE IF env.fault = "slot_insert_end" THEN
            failed(FALSE, FALSE, "none", env.err)
        ELSE IF is_using_tls /\ ~left_has_handler THEN
            failed(TRUE, FALSE, "none", AWS_ERROR_INVALID_STATE)
        ELSE IF h2_fatal_assert(version) THEN
            [ok |-> FALSE, fatal |-> TRUE, channel |-> with_slot,
             connection |-> NoConnection, version |-> version,
             last_error |-> AWS_ERROR_SUCCESS, handler_destroyed |-> FALSE,
             slot_removed |-> FALSE]
        ELSE IF version \notin {AWS_HTTP_VERSION_1_1, AWS_HTTP_VERSION_2} THEN
            failed(TRUE, FALSE, version, AWS_ERROR_HTTP_UNSUPPORTED_PROTOCOL)
        ELSE IF env.fault = "connection_new" THEN
            failed(TRUE, FALSE, version, env.err)
        ELSE IF env.fault = "slot_set_handler" THEN
            failed(TRUE, TRUE, version, env.err)
        ELSE
            [ok |-> TRUE, fatal |-> FALSE,
             channel |-> aws_channel_acquire_hold(
                             [with_slot EXCEPT !.slots[slot] = "http"]),
             connection |-> [NewConnection(version, is_server)
                                EXCEPT !.channel_slot = slot],
             version |-> version, last_error |-> AWS_ERROR_SUCCESS,
             handler_destroyed |-> FALSE, slot_removed |-> FALSE]

\* aws_http_connection_acquire: atomic fetch-add.
\* A plausible slip: acquire leaves the count as it is.
aws_http_connection_acquire_noop(connection) == connection

aws_http_connection_acquire(connection) ==
    [connection EXCEPT !.refcount = @ + 1]

\* A plausible slip: every release, not only the last, runs the side effects.
ReleaseIsFinal_any(prev_refcount) == prev_refcount >= 1

\* aws_http_connection_release: the test on the value fetch-sub returned.
ReleaseIsFinal(prev_refcount) == prev_refcount = 1

\* aws_http_connection_release, run to its end by one thread: the pair
\* (connection, channel) it leaves.
aws_http_connection_release(connection, channel) ==
    LET prev_refcount == connection.refcount
        released == [connection EXCEPT !.refcount = @ - 1]
    IN  IF ReleaseIsFinal(prev_refcount)
        THEN [connection |-> released,
              channel |-> aws_channel_release_hold(
                              aws_channel_shutdown(channel, AWS_ERROR_SUCCESS))]
        ELSE [connection |-> released, channel |-> channel]

-----------------------------------------------------------------------------
(* Client connect path                                                     *)

Attempts == 1..MaxAttempts

\* struct aws_http_client_connection_options, as far as client_connect reads
\* it.  The valid ones, and each one with one mandatory field missing.
\* is_null: the options pointer itself is NULL (the fields are then not there
\* to be read).
ValidClientOptions ==
    [is_null : {FALSE}, self_size : {1}, allocator : {TRUE}, bootstrap : {TRUE},
     host_name_len : {1}, socket_options : {TRUE}, on_setup : {TRUE},
     on_shutdown : BOOLEAN, tls_options : BOOLEAN]

InvalidClientOptions ==
    LET v == [is_null |-> FALSE, self_size |-> 1, allocator |-> TRUE,
              bootstrap |-> TRUE, host_name_len |-> 1, socket_options |-> TRUE,
              on_setup |-> TRUE, on_shutdown |-> TRUE, tls_options |-> FALSE]
    IN  { [v EXCEPT !.is_null = TRUE],
          [v EXCEPT !.self_size = 0], [v EXCEPT !.allocator = FALSE],
          [v EXCEPT !.bootstrap = FALSE], [v EXCEPT !.host_name_len = 0],
          [v EXCEPT !.socket_options = FALSE], [v EXCEPT !.on_setup = FALSE] }

ClientOptions == ValidClientOptions \cup InvalidClientOptions

\* What the allocator and the system vtable answer inside client_connect.
ConnectEnvs == {"ok", "host_name_oom", "bootstrap_oom", "new_socket_channel_err"}

NoBootstrap ==
    [allocated |-> FALSE, released |-> 0, is_using_tls |-> FALSE, on_setup |-> FALSE,
     on_shutdown |-> FALSE, connection |-> 0]

\* A user callback as the user sees it: which one, the connection pointer
\* (0: null; otherwise the attempt whose connection it is), the error code.
Event(cb, connection, error_code) ==
    [cb |-> cb, connection |-> connection, error_code |-> error_code]

\* Nothing called yet.
NoClientCall ==
    [called |-> FALSE, options_valid |-> FALSE, options_null |-> FALSE,
     last_error |-> AWS_ERROR_SUCCESS, records_allocated |-> 0,
     new_socket_channel |-> 0, new_tls_socket_channel |-> 0]

\* aws_mem_release is skipped: the record leaks.
aws_mem_release_skipped(record) == record

\* aws_mem_release(http_bootstrap->alloc, http_bootstrap)
aws_mem_release(record) == [record EXCEPT !.released = @ + 1]

\* What reading a field through a NULL options pointer can do: the process
\* dies, or the read goes through and yields zero (page zero readable), so
\* that the "!options" test is reached and taken.
NullOptionsOutcomes == {"crashed", "invalid_argument"}

ClInit ==
    /\ cl_pc = [a \in Attempts |-> "idle"]
    /\ http_bootstrap = [a \in Attempts |-> NoBootstrap]
    /\ cl_channel = [a \in Attempts |-> NoChannel]
    /\ cl_conn = [a \in Attempts |-> NoConnection]
    /\ cl_events = [a \in Attempts |-> <<>>]
    /\ cl_user_refs = [a \in Attempts |-> 0]
    /\ cl_shutdown_error = [a \in Attempts |-> "none"]
    /\ cl_call = [a \in Attempts |-> NoClientCall]
    /\ cl_setup_error = [a \in Attempts |-> "none"]

\* aws_http_client_connect and aws_http_client_connect_internal, without a
\* proxy.  Both read options->proxy_options before anything tests options
\* against NULL.
aws_http_client_connect(a) ==
    /\ cl_pc[a] = "idle"
    /\ \E options \in ClientOptions, env \in ConnectEnvs :
       LET call == [NoClientCall EXCEPT
                       !.called = TRUE,
                       !.options_valid = (options \in ValidClientOptions),
                       !.options_null = options.is_null]
       IN
          IF options.is_null
          THEN \E outcome \in NullOptionsOutcomes :
               /\ cl_pc' = [cl_pc EXCEPT ![a] = outcome]
               /\ cl_call' =
                     [cl_call EXCEPT
                         ![a] = [call EXCEPT
                                    !.last_error =
                                        IF outcome = "invalid_argument"
                                        THEN AWS_ERROR_INVALID_ARGUMENT ELSE @]]
               /\ UNCHANGED http_bootstrap
          ELSE IF \/ options.self_size = 0 \/ ~options.allocator \/ ~options.bootstrap
                  \/ options.host_name_len = 0 \/ ~options.socket_options
                  \/ ~options.on_setup
          THEN /\ cl_pc' = [cl_pc EXCEPT ![a] = "invalid_argument"]
               /\ cl_call' =
                     [cl_call EXCEPT
                         ![a] = [call EXCEPT !.last_error = AWS_ERROR_INVALID_ARGUMENT]]
               /\ UNCHANGED http_bootstrap
          ELSE IF env = "host_name_oom"
          THEN /\ cl_pc' = [cl_pc EXCEPT ![a] = "connect_failed"]
               /\ cl_call' = [cl_call EXCEPT ![a] = [call EXCEPT !.last_error = AWS_ERROR_OOM]]
               /\ UNCHANGED http_bootstrap
          ELSE IF env = "bootstrap_oom"
          THEN /\ cl_pc' = [cl_pc EXCEPT ![a] = "connect_failed"]
               /\ cl_call' = [cl_call EXCEPT ![a] = [call EXCEPT !.last_error = AWS_ERROR_OOM]]
               /\ UNCHANGED http_bootstrap
          ELSE LET record == [allocated |-> TRUE, released |-> 0,
                              is_using_tls |-> options.tls_options,
                              on_setup |-> options.on_setup,
                              on_shutdown |-> options.on_shutdown,
                              connection |-> 0]
                   dialled == [call EXCEPT
                                  !.records_allocated = 1,
                                  !.new_socket_channel =
                                      IF options.tls_options THEN 0 ELSE 1,
                                  !.new_tls_socket_channel =
                                      IF options.tls_options THEN 1 ELSE 0]
               IN  IF env = "new_socket_channel_err"
                   THEN \E err \in IoErrors :
                        /\ cl_pc' = [cl_pc EXCEPT ![a] = "connect_failed"]
                        /\ cl_call' =
                              [cl_call EXCEPT ![a] = [dialled EXCEPT !.last_error = err]]
                        /\ http_bootstrap' =
                              [http_bootstrap EXCEPT ![a] = aws_mem_release(record)]
                   ELSE /\ cl_pc' = [cl_pc EXCEPT ![a] = "connecting"]
                        /\ cl_call' = [cl_call EXCEPT ![a] = dialled]
                        /\ http_bootstrap' = [http_bootstrap EXCEPT ![a] = record]
    /\ UNCHANGED <<cl_channel, cl_conn, cl_events, cl_user_refs, cl_shutdown_error,
                   cl_setup_error>>

\* A plausible slip: on_setup is not cleared after it was called.
on_setup_after_call_kept(record) == record

\* "http_bootstrap->on_setup = NULL" after on_setup(connection, 0) returned.
on_setup_after_call(record) == [record EXCEPT !.on_setup = FALSE]

\* s_client_bootstrap_on_channel_setup, up to the call of on_setup(conn, 0).
\* The bootstrap's contract: channel is NULL iff error_code is non-zero.
s_client_bootstrap_on_channel_setup(a) ==
    /\ cl_pc[a] = "connecting"
    /\ UNCHANGED <<cl_shutdown_error, cl_call>>
    /\ \E error_code \in {AWS_ERROR_SUCCESS} \cup IoErrors :
       /\ cl_setup_error' = [cl_setup_error EXCEPT ![a] = error_code]
       /\ IF IsError(error_code)
          THEN \* on_setup(NULL, error_code), release the record, return
               /\ cl_events' =
                     [cl_events EXCEPT ![a] = Append(@, Event("on_setup", 0, error_code))]
               /\ http_bootstrap' = [http_bootstrap EXCEPT ![a] = aws_mem_release(@)]
               /\ cl_pc' = [cl_pc EXCEPT ![a] = "setup_failed"]
               /\ UNCHANGED <<cl_channel, cl_conn, cl_user_refs>>
          ELSE \E channel \in ChannelsFor(http_bootstrap[a].is_using_tls),
                  env \in FactoryEnvs :
               LET made == s_connection_new(channel, FALSE,
                                            http_bootstrap[a].is_using_tls, env)
               IN  IF made.fatal
                   THEN /\ cl_pc' = [cl_pc EXCEPT ![a] = "aborted"]
                        /\ cl_channel' = [cl_channel EXCEPT ![a] = made.channel]
                        /\ UNCHANGED <<http_bootstrap, cl_conn, cl_events, cl_user_refs>>
                   ELSE IF ~made.ok
                   THEN \* goto error: aws_channel_shutdown(channel, aws_last_error())
                        /\ cl_channel' =
                              [cl_channel EXCEPT
                                  ![a] = aws_channel_shutdown(made.channel, made.last_error)]
                        /\ cl_pc' = [cl_pc EXCEPT ![a] = "setup_returned"]
                        /\ UNCHANGED <<http_bootstrap, cl_conn, cl_events, cl_user_refs>>
                   ELSE /\ cl_channel' = [cl_channel EXCEPT ![a] = made.channel]
                        /\ cl_conn' = [cl_conn EXCEPT ![a] = made.connection]
                        /\ http_bootstrap' = [http_bootstrap EXCEPT ![a].connection = a]
                        /\ cl_events' =
                              [cl_events EXCEPT
                                  ![a] = Append(@, Event("on_setup", a, AWS_ERROR_SUCCESS))]
                        /\ cl_user_refs' = [cl_user_refs EXCEPT ![a] = 1]
                        /\ cl_pc' = [cl_pc EXCEPT ![a] = "in_on_setup"]

\* s_client_bootstrap_on_channel_setup, from the return of on_setup(conn, 0).
s_client_bootstrap_on_channel_setup_return(a) ==
    /\ cl_pc[a] = "in_on_setup"
    /\ http_bootstrap' = [http_bootstrap EXCEPT ![a] = on_setup_after_call(@)]
    /\ cl_pc' = [cl_pc EXCEPT ![a] = "setup_returned"]
    /\ UNCHANGED <<cl_channel, cl_conn, cl_events, cl_user_refs, cl_shutdown_error,
                   cl_call, cl_setup_error>>

\* A plausible slip: a zero error code is passed on as it came.
failed_setup_error_code_as_given(error_code) == error_code

\* "if (error_code == 0) error_code = AWS_ERROR_UNKNOWN"
failed_setup_error_code(error_code) ==
    IF error_code = AWS_ERROR_SUCCESS THEN AWS_ERROR_UNKNOWN ELSE error_code

\* A plausible slip: the channel's error is dropped, on_shutdown gets 0.
on_shutdown_call_no_error(record, error_code) ==
    Event("on_shutdown", record.connection, AWS_ERROR_SUCCESS)

\* "http_bootstrap->on_shutdown(http_bootstrap->connection, error_code, ...)"
on_shutdown_call(record, error_code) ==
    Event("on_shutdown", record.connection, error_code)

\* A plausible slip: "if" where the code has "else if", so that on_shutdown
\* also runs after a failed setup was reported.
s_client_shutdown_calls_no_else(record, error_code) ==
    (IF record.on_setup
     THEN <<Event("on_setup", 0, failed_setup_error_code(error_code))>>
     ELSE <<>>)
    \o (IF record.on_shutdown
        THEN <<on_shutdown_call(record, error_code)>>
        ELSE <<>>)

\* The user callbacks s_client_bootstrap_on_channel_shutdown invokes: the
\* deferred on_setup(NULL, error) while on_setup is still set, otherwise
\* on_shutdown(connection, error) if the user gave one.
s_client_shutdown_calls(record, error_code) ==
    IF record.on_setup
    THEN <<Event("on_setup", 0, failed_setup_error_code(error_code))>>
    ELSE IF record.on_shutdown
    THEN <<on_shutdown_call(record, error_code)>>
    ELSE <<>>

\* s_client_bootstrap_on_channel_shutdown.  The channel runtime runs it once
\* per channel, after the setup callback returned, with any error code.
s_client_bootstrap_on_channel_shutdown(a) ==
    /\ cl_pc[a] = "setup_returned"
    /\ cl_channel[a].exists
    /\ \E error_code \in {AWS_ERROR_SUCCESS} \cup IoErrors :
          /\ cl_events' =
                [cl_events EXCEPT
                    ![a] = @ \o s_client_shutdown_calls(http_bootstrap[a], error_code)]
          /\ cl_shutdown_error' = [cl_shutdown_error EXCEPT ![a] = error_code]
    /\ http_bootstrap' = [http_bootstrap EXCEPT ![a] = aws_mem_release(@)]
    /\ cl_pc' = [cl_pc EXCEPT ![a] = "shutdown_done"]
    /\ UNCHANGED <<cl_channel, cl_conn, cl_user_refs, cl_call, cl_setup_error>>

\* The user calls aws_http_connection_acquire on the client connection it
\* holds a reference to.
ClUserAcquire(a) ==
    /\ cl_pc[a] \in {"in_on_setup", "setup_returned", "shutdown_done"}
    /\ cl_user_refs[a] >= 1
    /\ cl_user_refs[a] <= MaxUserAcquires
    /\ cl_conn' = [cl_conn EXCEPT ![a] = aws_http_connection_acquire(@)]
    /\ cl_user_refs' = [cl_user_refs EXCEPT ![a] = @ + 1]
    /\ UNCHANGED <<cl_pc, http_bootstrap, cl_channel, cl_events, cl_shutdown_error,
                   cl_call, cl_setup_error>>

\* The user releases a reference it holds on the connection it was given
\* (inside on_setup or later).
ClUserRelease(a) ==
    /\ cl_pc[a] \in {"in_on_setup", "setup_returned", "shutdown_done"}
    /\ cl_user_refs[a] >= 1
    /\ LET out == aws_http_connection_release(cl_conn[a], cl_channel[a])
       IN  /\ cl_conn' = [cl_conn EXCEPT ![a] = out.connection]
           /\ cl_channel' = [cl_channel EXCEPT ![a] = out.channel]
    /\ cl_user_refs' = [cl_user_refs EXCEPT ![a] = @ - 1]
    /\ UNCHANGED <<cl_pc, http_bootstrap, cl_events, cl_shutdown_error, cl_call,
                   cl_setup_error>>

-----------------------------------------------------------------------------
(* The connection factory on its own: every combination of role, TLS flag, *)
(* channel and callee failure.                                             *)

FactoryChannels ==
    {PlainChannel} \cup {TlsChannel(p) : p \in AlpnProtocols} \cup BareChannels

FactoryInputs ==
    [channel : FactoryChannels, is_server : BOOLEAN, is_using_tls : BOOLEAN,
     env : FactoryEnvs]

NoFactoryResult ==
    [ok |-> FALSE, fatal |-> FALSE, channel |-> NoChannel, connection |-> NoConnection,
     version |-> "none", last_error |-> AWS_ERROR_SUCCESS, handler_destroyed |-> FALSE,
     slot_removed |-> FALSE]

FIdle ==
    /\ f_in = [channel |-> NoChannel, is_server |-> FALSE, is_using_tls |-> FALSE,
               env |-> [fault |-> "none", err |-> AWS_ERROR_OOM]]
    /\ f_out = NoFactoryResult
    /\ f_done = TRUE
    /\ f_uses = 0

FInit ==
    /\ f_in \in FactoryInputs
    /\ f_out = NoFactoryResult
    /\ f_done = FALSE
    /\ f_uses = 0

CallConnectionNew ==
    /\ ~f_done
    /\ f_out' = s_connection_new(f_in.channel, f_in.is_server, f_in.is_using_tls,
                                 f_in.env)
    /\ f_done' = TRUE
    /\ UNCHANGED <<f_in, f_uses>>

-----------------------------------------------------------------------------
(* configure_server on its own                                             *)

\* struct aws_http_server_connection_options; is_null: the pointer is NULL.
ServerConnectionOptions ==
    [is_null : BOOLEAN, on_incoming_request : {"NULL", "on_request_1", "on_request_2"},
     on_shutdown : {"NULL", "on_shutdown_1"},
     connection_user_data : {"user_data_1", "user_data_2"}]

AWS_OP_SUCCESS == "AWS_OP_SUCCESS"
AWS_OP_ERR == "AWS_OP_ERR"

\* A plausible slip: the "already configured" test is missing.
aws_http_connection_configure_server_no_recheck(connection_is_null, connection, options) ==
    IF connection_is_null \/ options.is_null \/ options.on_incoming_request = "NULL"
    THEN [rc |-> AWS_OP_ERR, error |-> AWS_ERROR_INVALID_ARGUMENT,
          connection |-> connection]
    ELSE IF ~connection.server_data
    THEN [rc |-> AWS_OP_ERR, error |-> AWS_ERROR_INVALID_STATE, connection |-> connection]
    ELSE [rc |-> AWS_OP_SUCCESS, error |-> AWS_ERROR_SUCCESS,
          connection |-> [connection EXCEPT
                             !.user_data = options.connection_user_data,
                             !.on_incoming_request = options.on_incoming_request,
                             !.on_shutdown = options.on_shutdown]]

\* aws_http_connection_configure_server: the return code, the error raised
\* and the connection as the call leaves it.
aws_http_connection_configure_server(connection_is_null, connection, options) ==
    IF connection_is_null \/ options.is_null \/ options.on_incoming_request = "NULL"
    THEN [rc |-> AWS_OP_ERR, error |-> AWS_ERROR_INVALID_ARGUMENT,
          connection |-> connection]
    ELSE IF ~connection.server_data
    THEN [rc |-> AWS_OP_ERR, error |-> AWS_ERROR_INVALID_STATE, connection |-> connection]
    ELSE IF connection.on_incoming_request # "NULL"
    THEN [rc |-> AWS_OP_ERR, error |-> AWS_ERROR_INVALID_STATE, connection |-> connection]
    ELSE [rc |-> AWS_OP_SUCCESS, error |-> AWS_ERROR_SUCCESS,
          connection |-> [connection EXCEPT
                             !.user_data = options.connection_user_data,
                             !.on_incoming_request = options.on_incoming_request,
                             !.on_shutdown = options.on_shutdown]]

NoConfigureCall ==
    [called |-> FALSE, connection_is_null |-> FALSE,
     options |-> [is_null |-> TRUE, on_incoming_request |-> "NULL",
                  on_shutdown |-> "NULL", connection_user_data |-> "user_data_1"],
     before |-> NoConnection, rc |-> AWS_OP_SUCCESS, error |-> AWS_ERROR_SUCCESS]

CfgIdle ==
    /\ cfg_conn = NoConnection
    /\ cfg_last = NoConfigureCall
    /\ cfg_calls = MaxConfigureCalls
    /\ cfg_successes = 0

\* A connection as the factory returns it, of either role.
CfgInit ==
    /\ cfg_conn \in {[NewConnection(AWS_HTTP_VERSION_1_1, is_server)
                         EXCEPT !.channel_slot = 2] : is_server \in BOOLEAN}
    /\ cfg_last = NoConfigureCall
    /\ cfg_calls = 0
    /\ cfg_successes = 0

CallConfigureServer ==
    /\ cfg_calls < MaxConfigureCalls
    /\ \E connection_is_null \in BOOLEAN, options \in ServerConnectionOptions :
          LET out == aws_http_connection_configure_server(
                         connection_is_null, cfg_conn, options)
          IN  /\ cfg_conn' = out.connection
              /\ cfg_last' = [called |-> TRUE, connection_is_null |-> connection_is_null,
                              options |-> options, before |-> cfg_conn,
                              rc |-> out.rc, error |-> out.error]
              /\ cfg_successes' =
                    IF out.rc = AWS_OP_SUCCESS THEN cfg_successes + 1 ELSE cfg_successes
    /\ cfg_calls' = cfg_calls + 1

-----------------------------------------------------------------------------
(* The reference count of one connection, used by several threads.  A      *)
(* thread calls acquire or release only on a connection that a reference   *)
(* keeps alive: release on a reference it holds, acquire while some        *)
(* reference is held.  fetch-add and fetch-sub are atomic; what follows the *)
(* fetch-sub is not, and other threads run in between.                     *)

Threads == 1..MaxThreads

RcInit ==
    /\ rc_conn = [NewConnection(AWS_HTTP_VERSION_1_1, FALSE) EXCEPT !.channel_slot = 2]
    /\ rc_channel = aws_channel_acquire_hold(
                        [PlainChannel EXCEPT !.slots = <<"socket", "http">>])
    /\ rc_pc = [t \in Threads |-> "idle"]
    /\ rc_held = [t \in Threads |-> IF t = 1 THEN 1 ELSE 0]
    /\ rc_acquires = 0

RcIdle ==
    /\ rc_conn = NoConnection
    /\ rc_channel = NoChannel
    /\ rc_pc = [t \in Threads |-> "idle"]
    /\ rc_held = [t \in Threads |-> 0]
    /\ rc_acquires = MaxAcquires

\* aws_http_connection_acquire, by thread t (for itself or to hand on).
RcAcquire(t) ==
    /\ rc_pc[t] = "idle"
    /\ rc_acquires < MaxAcquires
    /\ \E u \in Threads : rc_held[u] >= 1
    /\ rc_conn' = aws_http_connection_acquire(rc_conn)
    /\ rc_held' = [rc_held EXCEPT ![t] = @ + 1]
    /\ rc_acquires' = rc_acquires + 1
    /\ UNCHANGED <<rc_channel, rc_pc>>

\* aws_http_connection_release: the fetch-sub and the test of its result.
RcReleaseFetchSub(t) ==
    /\ rc_pc[t] = "idle"
    /\ rc_held[t] >= 1
    /\ rc_conn' = [rc_conn EXCEPT !.refcount = @ - 1]
    /\ rc_held' = [rc_held EXCEPT ![t] = @ - 1]
    /\ rc_pc' = [rc_pc EXCEPT
                    ![t] = IF ReleaseIsFinal(rc_conn.refcount) THEN "shutdown" ELSE "idle"]
    /\ UNCHANGED <<rc_channel, rc_acquires>>

\* aws_http_connection_release: aws_channel_shutdown(channel, AWS_ERROR_SUCCESS)
RcReleaseShutdown(t) ==
    /\ rc_pc[t] = "shutdown"
    /\ rc_channel' = aws_channel_shutdown(rc_channel, AWS_ERROR_SUCCESS)
    /\ rc_pc' = [rc_pc EXCEPT ![t] = "release_hold"]
    /\ UNCHANGED <<rc_conn, rc_held, rc_acquires>>

\* aws_http_connection_release: aws_channel_release_hold(channel)
RcReleaseHold(t) ==
    /\ rc_pc[t] = "release_hold"
    /\ rc_channel' = aws_channel_release_hold(rc_channel)
    /\ rc_pc' = [rc_pc EXCEPT ![t] = "idle"]
    /\ UNCHANGED <<rc_conn, rc_held, rc_acquires>>

-----------------------------------------------------------------------------
(* Server listener path.  aws_http_server_new runs on the user's thread,   *)
(* the accept callbacks of a channel on that channel's event-loop thread,   *)
(* every server_release call on a thread of its own; the steps of different *)
(* threads interleave, and the server lock is the only thing that orders    *)
(* them.                                                                    *)

Channels == 1..MaxChannels

Releases == 1..MaxReleases

\* struct aws_http_server_options: the valid ones, and each with one
\* mandatory field missing.
ValidServerOptions ==
    [is_null : {FALSE}, self_size : {1}, allocator : {TRUE}, bootstrap : {TRUE}, socket_options : {TRUE},
     on_incoming_connection : {TRUE}, endpoint : {TRUE}, tls_options : BOOLEAN,
     on_destroy_complete : BOOLEAN]

InvalidServerOptions ==
    LET v == [is_null |-> FALSE, self_size |-> 1, allocator |-> TRUE,
              bootstrap |-> TRUE, socket_options |-> TRUE,
              on_incoming_connection |-> TRUE, endpoint |-> TRUE,
              tls_options |-> FALSE, on_destroy_complete |-> TRUE]
    IN  { [v EXCEPT !.is_null = TRUE],
          [v EXCEPT !.self_size = 0], [v EXCEPT !.allocator = FALSE],
          [v EXCEPT !.bootstrap = FALSE], [v EXCEPT !.socket_options = FALSE],
          [v EXCEPT !.on_incoming_connection = FALSE], [v EXCEPT !.endpoint = FALSE] }

ServerOptions == ValidServerOptions \cup InvalidServerOptions

\* What the allocator, the mutex, the hash table and the bootstrap answer
\* inside aws_http_server_new.
ServerNewEnvs == {"ok", "calloc_fail", "mutex_init_fail", "hash_table_init_fail",
                  "new_socket_listener_fail"}

\* What the bootstrap hands to the accept callbacks: the error codes, the
\* channels (with TLS, one that negotiated a protocol) and the answers of the
\* allocator inside the factory.
AcceptErrorCodes == {AWS_ERROR_SUCCESS, "AWS_IO_SOCKET_CLOSED"}

AcceptedChannels(is_using_tls) ==
    IF is_using_tls
    THEN {TlsChannel(s_alpn_protocol_http_1_1), TlsChannel(s_alpn_protocol_http_2)}
    ELSE {PlainChannel}

AcceptFactoryEnvs == {env \in FactoryEnvs : env.fault \in {"none", "connection_new"}}

\* The threads that take the server lock.
LockFree == <<"free", 0>>
NewThread == <<"server_new", 0>>
AcceptThread(c) == <<"accept", c>>
ReleaseThread(r) == <<"release", r>>

\* memory: "none" before aws_mem_calloc, "live", "freed" after aws_mem_release.
NoServer ==
    [memory |-> "none", is_using_tls |-> FALSE, on_destroy_complete |-> FALSE,
     socket |-> FALSE, is_shutting_down |-> FALSE]

NoAcceptLocals ==
    [error_code |-> AWS_ERROR_SUCCESS, last_error |-> AWS_ERROR_SUCCESS,
     user_cb_invoked |-> FALSE, connection |-> 0, put_err |-> FALSE,
     was_present |-> FALSE, configure_calls |-> 0, unconfigured |-> FALSE,
     saw_shutting_down |-> FALSE, socket_read |-> "unread",
     shutdown_error_code |-> "none"]

\* caller: 0 when the call is made on a thread of the user's, c when it is
\* made inside the on_incoming_connection callback of channel c.
NoReleaseLocals == [already_shutting_down |-> FALSE, iter |-> {}, caller |-> 0]

SrvInit ==
    /\ server = NoServer
    /\ lock = LockFree
    /\ channel_to_connection_map = {}
    /\ new_pc = "idle"
    /\ listener = [exists |-> FALSE, destroyed |-> FALSE]
    /\ srv_pc = [c \in Channels |-> "unborn"]
    /\ srv_channel = [c \in Channels |-> NoChannel]
    /\ srv_conn = [c \in Channels |-> NoConnection]
    /\ srv_local = [c \in Channels |-> NoAcceptLocals]
    /\ srv_events = [c \in Channels |-> <<>>]
    /\ rel_pc = [r \in Releases |-> "idle"]
    /\ rel_local = [r \in Releases |-> NoReleaseLocals]
    /\ srv_calls = [on_destroy_complete |-> 0, destroy_socket_listener |-> 0,
                    flag_set |-> 0, use_after_free |-> FALSE, aborted |-> FALSE,
                    new_socket_listener |-> 0, new_last_error |-> AWS_ERROR_SUCCESS,
                    user_refs |-> [c \in Channels |-> 0],
                    user_acquires |-> [c \in Channels |-> 0],
                    user_releases |-> [c \in Channels |-> 0],
                    final_releases |-> [c \in Channels |-> 0],
                    release_at_zero |-> [c \in Channels |-> FALSE],
                    acquire_at_zero |-> [c \in Channels |-> FALSE],
                    late_configures |-> [c \in Channels |-> 0],
                    puts |-> [c \in Channels |-> 0],
                    removes |-> [c \in Channels |-> 0]]

\* The process is alive (no fatal assertion has fired).
Running == ~srv_calls.aborted

\* aws_hash_table_put / aws_hash_table_remove on the registry, a set of
\* (key, value) entries with at most one entry per key.
MapKeys(map) == {e.key : e \in map}

aws_hash_table_put(map, key, value) ==
    {e \in map : e.key # key} \cup {[key |-> key, value |-> value]}

\* A plausible slip: the entry is looked up but left in the table.
aws_hash_table_remove_kept(map, key) == map

aws_hash_table_remove(map, key) == {e \in map : e.key # key}

\* A plausible slip: the listener is created without the lock held.
server_new_lock_owner_none == LockFree

\* "s_server_lock_synced_data(server)" before the listener is created.
server_new_lock_owner == NewThread

\* aws_http_server_new, from its start to the call into the bootstrap that
\* creates the listener, made with the server lock held.
aws_http_server_new ==
    /\ new_pc = "idle"
    /\ \E options \in ServerOptions, env \in ServerNewEnvs :
          IF \/ options.is_null
             \/ options.self_size = 0 \/ ~options.allocator \/ ~options.bootstrap
             \/ ~options.socket_options \/ ~options.on_incoming_connection
             \/ ~options.endpoint
          THEN /\ new_pc' = "invalid_argument"
               /\ srv_calls' =
                     [srv_calls EXCEPT !.new_last_error = AWS_ERROR_INVALID_ARGUMENT]
               /\ UNCHANGED <<server, lock, listener>>
          ELSE IF env = "calloc_fail"
          THEN /\ new_pc' = "failed"
               /\ srv_calls' = [srv_calls EXCEPT !.new_last_error = AWS_ERROR_OOM]
               /\ UNCHANGED <<server, lock, listener>>
          ELSE IF env \in {"mutex_init_fail", "hash_table_init_fail"}
          THEN /\ new_pc' = "failed"
               /\ server' = [NoServer EXCEPT !.memory = "freed"]
               /\ srv_calls' = [srv_calls EXCEPT !.new_last_error = AWS_ERROR_OOM]
               /\ UNCHANGED <<lock, listener>>
          ELSE /\ server' = [memory |-> "live", is_using_tls |-> options.tls_options,
                             on_destroy_complete |-> options.on_destroy_complete,
                             socket |-> FALSE, is_shutting_down |-> FALSE]
               /\ lock' = server_new_lock_owner
               /\ listener' = [exists |-> env = "ok", destroyed |-> FALSE]
               /\ srv_calls' =
                     [srv_calls EXCEPT
                         !.new_socket_listener = @ + 1,
                         !.new_last_error = IF env = "ok" THEN @ ELSE AWS_ERROR_OOM]
               /\ new_pc' = "in_bootstrap"
    /\ UNCHANGED <<channel_to_connection_map, srv_pc, srv_channel, srv_conn, srv_local,
                   srv_events, rel_pc, rel_local>>

\* aws_http_server_new: "server->socket = ..." as the bootstrap call returns.
aws_http_server_new_assign_socket ==
    /\ Running
    /\ new_pc = "in_bootstrap"
    /\ server' = [server EXCEPT !.socket = listener.exists]
    /\ new_pc' = "socket_assigned"
    /\ UNCHANGED <<lock, channel_to_connection_map, listener, srv_pc, srv_channel,
                   srv_conn, srv_local, srv_events, rel_pc, rel_local, srv_calls>>

\* aws_http_server_new: s_server_unlock_synced_data
aws_http_server_new_unlock ==
    /\ Running
    /\ new_pc = "socket_assigned"
    /\ lock' = LockFree
    /\ new_pc' = "unlocked"
    /\ UNCHANGED <<server, channel_to_connection_map, listener, srv_pc, srv_channel,
                   srv_conn, srv_local, srv_events, rel_pc, rel_local, srv_calls>>

\* A plausible slip: NULL is returned and the server is left as it is.
socket_error_clean_up_skipped(srv) == srv

\* aws_http_server_new, from "socket_error:" on: the registry and the mutex
\* are cleaned up and the memory is released.
socket_error_clean_up(srv) == [srv EXCEPT !.memory = "freed"]

\* aws_http_server_new: the test of server->socket; either the server is
\* returned or it is torn down (registry, mutex, memory) and NULL returned.
aws_http_server_new_return ==
    /\ Running
    /\ new_pc = "unlocked"
    /\ IF ~server.socket
       THEN /\ server' = socket_error_clean_up(server)
            /\ new_pc' = "failed"
       ELSE /\ new_pc' = "returned"
            /\ UNCHANGED server
    /\ UNCHANGED <<lock, channel_to_connection_map, listener, srv_pc, srv_channel,
                   srv_conn, srv_local, srv_events, rel_pc, rel_local, srv_calls>>

\* s_server_bootstrap_on_accept_channel_setup, from its start to the lock:
\* the error test and the factory.  The bootstrap calls it once per inbound
\* channel, with a channel iff error_code is zero.
s_server_bootstrap_on_accept_channel_setup(c) ==
    /\ Running
    /\ srv_pc[c] = "unborn"
    /\ \A d \in Channels : d < c => srv_pc[d] # "unborn"
    /\ listener.exists /\ ~listener.destroyed
    /\ \E error_code \in AcceptErrorCodes :
          IF IsError(error_code)
          THEN /\ srv_local' = [srv_local EXCEPT ![c].error_code = error_code]
               /\ srv_pc' = [srv_pc EXCEPT ![c] = "error"]
               /\ UNCHANGED <<srv_channel, srv_conn, srv_calls>>
          ELSE \E channel \in AcceptedChannels(server.is_using_tls), env \in AcceptFactoryEnvs :
               LET made == s_connection_new(channel, TRUE, server.is_using_tls, env)
               IN  IF made.fatal
                   THEN /\ srv_calls' = [srv_calls EXCEPT !.aborted = TRUE]
                        /\ srv_channel' = [srv_channel EXCEPT ![c] = made.channel]
                        /\ srv_pc' = [srv_pc EXCEPT ![c] = "aborted"]
                        /\ UNCHANGED <<srv_conn, srv_local>>
                   ELSE IF ~made.ok
                   THEN /\ srv_channel' = [srv_channel EXCEPT ![c] = made.channel]
                        /\ srv_local' =
                              [srv_local EXCEPT ![c].last_error = made.last_error]
                        /\ srv_pc' = [srv_pc EXCEPT ![c] = "error"]
                        /\ UNCHANGED <<srv_conn, srv_calls>>
                   ELSE /\ srv_channel' = [srv_channel EXCEPT ![c] = made.channel]
                        /\ srv_conn' = [srv_conn EXCEPT ![c] = made.connection]
                        /\ srv_local' = [srv_local EXCEPT ![c].connection = c]
                        /\ srv_pc' = [srv_pc EXCEPT ![c] = "want_lock"]
                        /\ UNCHANGED srv_calls
    /\ UNCHANGED <<server, lock, channel_to_connection_map, new_pc, listener,
                   srv_events, rel_pc, rel_local>>

\* s_server_bootstrap_on_accept_channel_setup: s_server_lock_synced_data
accept_setup_lock(c) ==
    /\ Running
    /\ srv_pc[c] = "want_lock"
    /\ lock = LockFree
    /\ lock' = AcceptThread(c)
    /\ srv_pc' = [srv_pc EXCEPT ![c] = "critical"]
    /\ UNCHANGED <<server, channel_to_connection_map, new_pc, listener, srv_channel,
                   srv_conn, srv_local, srv_events, rel_pc, rel_local, srv_calls>>

\* A plausible slip: is_shutting_down is not looked at.
error_code_under_lock_unchecked(is_shutting_down, error_code) == error_code

\* "if (server->synced_data.is_shutting_down) error_code = ...CONNECTION_CLOSED"
error_code_under_lock(is_shutting_down, error_code) ==
    IF is_shutting_down THEN AWS_ERROR_HTTP_CONNECTION_CLOSED ELSE error_code

\* s_server_bootstrap_on_accept_channel_setup: the critical section, the
\* unlock, the tests of error_code and put_err and, if all went well, the
\* call of on_incoming_connection(connection, 0).  After the unlock the
\* code reads server->socket for its log line, unless error_code is set.
accept_setup_critical(c) ==
    /\ Running
    /\ srv_pc[c] = "critical"
    /\ \E put_fails \in BOOLEAN :
          LET error_code == error_code_under_lock(server.is_shutting_down,
                                                  srv_local[c].error_code)
              put_err == ~IsError(error_code) /\ put_fails
              stored == ~IsError(error_code) /\ ~put_fails
          IN  /\ channel_to_connection_map' =
                    IF stored
                    THEN aws_hash_table_put(channel_to_connection_map, c,
                                            srv_local[c].connection)
                    ELSE channel_to_connection_map
              /\ srv_calls' = IF stored
                              THEN [srv_calls EXCEPT !.puts[c] = @ + 1,
                                                     !.user_refs[c] = 1]
                              ELSE srv_calls
              /\ srv_local' =
                    [srv_local EXCEPT
                        ![c].error_code = error_code,
                        ![c].put_err = put_err,
                        ![c].last_error = IF put_err THEN AWS_ERROR_OOM ELSE @,
                        ![c].user_cb_invoked = stored,
                        ![c].saw_shutting_down = server.is_shutting_down,
                        ![c].socket_read =
                            IF stored \/ put_err
                            THEN IF server.socket THEN "set" ELSE "unset"
                            ELSE @]
              /\ srv_events' =
                    IF stored
                    THEN [srv_events EXCEPT
                             ![c] = Append(@, Event("on_incoming_connection", c,
                                                    AWS_ERROR_SUCCESS))]
                    ELSE srv_events
              /\ srv_pc' = [srv_pc EXCEPT ![c] = IF stored THEN "in_user_cb" ELSE "error"]
    /\ lock' = LockFree
    /\ UNCHANGED <<server, new_pc, listener, srv_channel, srv_conn, rel_pc, rel_local>>

\* The options the user passes to configure_server inside the callback.
CallbackConfigureOptions ==
    {o \in ServerConnectionOptions :
        /\ ~o.is_null
        /\ o.on_incoming_request # "on_request_2"
        /\ o.connection_user_data = "user_data_1"}

\* Inside on_incoming_connection(connection, 0) the user calls
\* aws_http_connection_configure_server.
user_configure_server(c) ==
    /\ Running
    /\ srv_pc[c] = "in_user_cb"
    /\ srv_local[c].configure_calls < MaxConfigureInCallback
    /\ \E options \in CallbackConfigureOptions :
          LET out == aws_http_connection_configure_server(FALSE, srv_conn[c], options)
          IN  /\ srv_conn' = [srv_conn EXCEPT ![c] = out.connection]
              /\ srv_local' =
                    [srv_local EXCEPT
                        ![c].configure_calls = @ + 1,
                        ![c].last_error = IF out.rc = AWS_OP_ERR THEN out.error ELSE @]
    /\ UNCHANGED <<server, lock, channel_to_connection_map, new_pc, listener, srv_pc,
                   srv_channel, srv_events, rel_pc, rel_local, srv_calls>>

\* A plausible slip: no error is raised before "goto error".
last_error_if_unconfigured_stale(last_error) == last_error

\* "aws_raise_error(AWS_ERROR_HTTP_REACTION_REQUIRED)"
last_error_if_unconfigured(last_error) == AWS_ERROR_HTTP_REACTION_REQUIRED

\* s_server_bootstrap_on_accept_channel_setup, from the return of
\* on_incoming_connection(connection, 0): the test of on_incoming_request.
accept_setup_callback_returns(c) ==
    /\ Running
    /\ srv_pc[c] = "in_user_cb"
    /\ \A r \in Releases : rel_local[r].caller = c => rel_pc[r] = "done"
    /\ IF srv_conn[c].on_incoming_request = "NULL"
       THEN /\ srv_local' =
                  [srv_local EXCEPT
                      ![c].last_error = last_error_if_unconfigured(@),
                      ![c].unconfigured = TRUE]
            /\ srv_pc' = [srv_pc EXCEPT ![c] = "error"]
       ELSE /\ srv_pc' = [srv_pc EXCEPT ![c] = "setup_returned"]
            /\ UNCHANGED srv_local
    /\ UNCHANGED <<server, lock, channel_to_connection_map, new_pc, listener,
                   srv_channel, srv_conn, srv_events, rel_pc, rel_local, srv_calls>>

\* A plausible slip: the error path tells the user whatever happened before.
error_path_notifies_always(user_cb_invoked) == TRUE

\* "if (!user_cb_invoked)"
error_path_notifies(user_cb_invoked) == ~user_cb_invoked

\* s_server_bootstrap_on_accept_channel_setup: the code after "error:".
accept_setup_error(c) ==
    /\ Running
    /\ srv_pc[c] = "error"
    /\ LET error_code == IF ~IsError(srv_local[c].error_code)
                         THEN srv_local[c].last_error
                         ELSE srv_local[c].error_code
           shut == IF srv_channel[c].exists
                   THEN aws_channel_shutdown(srv_channel[c], error_code)
                   ELSE srv_channel[c]
           out == IF srv_local[c].connection # 0
                  THEN aws_http_connection_release(srv_conn[c], shut)
                  ELSE [connection |-> srv_conn[c], channel |-> shut]
       IN  /\ srv_local' = [srv_local EXCEPT ![c].error_code = error_code]
           /\ srv_events' =
                 IF error_path_notifies(srv_local[c].user_cb_invoked)
                 THEN [srv_events EXCEPT
                          ![c] = Append(@, Event("on_incoming_connection", 0, error_code))]
                 ELSE srv_events
           /\ srv_channel' = [srv_channel EXCEPT ![c] = out.channel]
           /\ srv_conn' = [srv_conn EXCEPT ![c] = out.connection]
           /\ srv_calls' =
                 IF srv_local[c].connection # 0
                 THEN [srv_calls EXCEPT
                          !.final_releases[c] =
                              IF ReleaseIsFinal(srv_conn[c].refcount) THEN @ + 1 ELSE @,
                          !.release_at_zero[c] = @ \/ srv_conn[c].refcount = 0]
                 ELSE srv_calls
           /\ srv_pc' = [srv_pc EXCEPT
                            ![c] = IF srv_channel[c].exists THEN "setup_returned"
                                   ELSE "no_channel"]
    /\ UNCHANGED <<server, lock, channel_to_connection_map, new_pc, listener, rel_pc,
                   rel_local>>

\* The user calls aws_http_connection_acquire on a server connection it
\* holds a reference to.
SrvUserAcquire(c) ==
    /\ Running
    /\ srv_calls.user_refs[c] >= 1
    /\ srv_calls.user_acquires[c] < MaxUserAcquires
    /\ srv_conn' = [srv_conn EXCEPT ![c] = aws_http_connection_acquire(@)]
    /\ srv_calls' = [srv_calls EXCEPT
                        !.user_refs[c] = @ + 1,
                        !.user_acquires[c] = @ + 1,
                        !.acquire_at_zero[c] = @ \/ srv_conn[c].refcount = 0]
    /\ UNCHANGED <<server, lock, channel_to_connection_map, new_pc, listener, srv_pc,
                   srv_channel, srv_local, srv_events, rel_pc, rel_local>>

\* The user calls aws_http_connection_release on a server connection, for a
\* reference it was given by on_incoming_connection(connection, 0) or took
\* with acquire; inside the callback or at any time after it.
SrvUserRelease(c) ==
    /\ Running
    /\ srv_calls.user_refs[c] >= 1
    /\ LET out == aws_http_connection_release(srv_conn[c], srv_channel[c])
       IN  /\ srv_conn' = [srv_conn EXCEPT ![c] = out.connection]
           /\ srv_channel' = [srv_channel EXCEPT ![c] = out.channel]
    /\ srv_calls' =
          [srv_calls EXCEPT
              !.user_refs[c] = @ - 1,
              !.user_releases[c] = @ + 1,
              !.final_releases[c] =
                  IF ReleaseIsFinal(srv_conn[c].refcount) THEN @ + 1 ELSE @,
              !.release_at_zero[c] = @ \/ srv_conn[c].refcount = 0]
    /\ UNCHANGED <<server, lock, channel_to_connection_map, new_pc, listener, srv_pc,
                   srv_local, srv_events, rel_pc, rel_local>>

\* The user calls aws_http_connection_configure_server on the handle it was
\* given after on_incoming_connection returned, before the accept-shutdown
\* callback tests on_shutdown.  The function has no way to tell that it is
\* called outside the callback.
user_configure_server_late(c) ==
    /\ Running
    /\ srv_pc[c] \in {"setup_returned", "shutdown_critical", "shutdown_notify"}
    /\ srv_local[c].user_cb_invoked
    /\ srv_calls.late_configures[c] < MaxLateConfigures
    /\ \E options \in CallbackConfigureOptions :
          LET out == aws_http_connection_configure_server(FALSE, srv_conn[c], options)
          IN  srv_conn' = [srv_conn EXCEPT ![c] = out.connection]
    /\ srv_calls' = [srv_calls EXCEPT !.late_configures[c] = @ + 1]
    /\ UNCHANGED <<server, lock, channel_to_connection_map, new_pc, listener, srv_pc,
                   srv_channel, srv_local, srv_events, rel_pc, rel_local>>

\* s_server_bootstrap_on_accept_channel_shutdown: s_server_lock_synced_data.
\* The bootstrap calls it once per channel, after the channel's accept-setup
\* callback returned.
s_server_bootstrap_on_accept_channel_shutdown(c) ==
    /\ Running
    /\ srv_pc[c] = "setup_returned"
    /\ lock = LockFree
    /\ lock' = AcceptThread(c)
    /\ srv_pc' = [srv_pc EXCEPT ![c] = "shutdown_critical"]
    /\ UNCHANGED <<server, channel_to_connection_map, new_pc, listener, srv_channel,
                   srv_conn, srv_local, srv_events, rel_pc, rel_local, srv_calls>>

\* s_server_bootstrap_on_accept_channel_shutdown: aws_hash_table_remove and
\* s_server_unlock_synced_data.
accept_shutdown_remove(c) ==
    /\ Running
    /\ srv_pc[c] = "shutdown_critical"
    /\ LET was_present == c \in MapKeys(channel_to_connection_map)
       IN  /\ channel_to_connection_map' =
                 aws_hash_table_remove(channel_to_connection_map, c)
           /\ srv_local' = [srv_local EXCEPT ![c].was_present = was_present]
           /\ srv_calls' = IF was_present THEN [srv_calls EXCEPT !.removes[c] = @ + 1]
                           ELSE srv_calls
    /\ lock' = LockFree
    /\ srv_pc' = [srv_pc EXCEPT ![c] = "shutdown_notify"]
    /\ UNCHANGED <<server, new_pc, listener, srv_channel, srv_conn, srv_events, rel_pc,
                   rel_local>>

\* A plausible slip: on_shutdown is called without the test for NULL.
notifies_on_shutdown_unchecked(was_present, on_shutdown) == was_present

\* "if (!remove_err && was_present) ... if (connection->server_data->on_shutdown)"
notifies_on_shutdown(was_present, on_shutdown) == was_present /\ on_shutdown # "NULL"

\* A plausible slip: a zero error code is coerced here as it is after a
\* failed client setup.
server_on_shutdown_call_coerced(connection, error_code) ==
    Event("on_shutdown", connection,
          IF error_code = AWS_ERROR_SUCCESS THEN AWS_ERROR_UNKNOWN ELSE error_code)

\* "connection->server_data->on_shutdown(connection, error_code, ...)"
server_on_shutdown_call(connection, error_code) ==
    Event("on_shutdown", connection, error_code)

\* s_server_bootstrap_on_accept_channel_shutdown: "Tell user about shutdown".
\* error_code is the callback's argument, which the code first uses here.
accept_shutdown_notify(c) ==
    /\ Running
    /\ srv_pc[c] = "shutdown_notify"
    /\ \E error_code \in AcceptErrorCodes :
          /\ srv_local' = [srv_local EXCEPT ![c].shutdown_error_code = error_code]
          /\ srv_events' =
                IF notifies_on_shutdown(srv_local[c].was_present, srv_conn[c].on_shutdown)
                THEN [srv_events EXCEPT
                         ![c] = Append(@, server_on_shutdown_call(c, error_code))]
                ELSE srv_events
    /\ srv_pc' = [srv_pc EXCEPT ![c] = "done"]
    /\ UNCHANGED <<server, lock, channel_to_connection_map, new_pc, listener,
                   srv_channel, srv_conn, rel_pc, rel_local, srv_calls>>

\* aws_http_server_release, its entry: "if (!server) return".  The user
\* holds NULL when aws_http_server_new failed.
aws_http_server_release(r) ==
    /\ Running
    /\ rel_pc[r] = "idle"
    /\ \A q \in Releases : q < r => rel_pc[q] # "idle"
    /\ \/ /\ new_pc \in {"invalid_argument", "failed"}
          /\ rel_pc' = [rel_pc EXCEPT ![r] = "done"]
       \/ /\ new_pc = "returned"
          /\ server.memory = "live"
          /\ rel_pc' = [rel_pc EXCEPT ![r] = "want_lock"]
    /\ UNCHANGED <<server, lock, channel_to_connection_map, new_pc, listener, srv_pc,
                   srv_channel, srv_conn, srv_local, srv_events, rel_local, srv_calls>>

\* The user calls aws_http_server_release from inside the
\* on_incoming_connection(connection, 0) callback of channel c, on the
\* thread that runs the callback; the callback gets the server as its first
\* argument.  Calls made on one thread follow one another.
aws_http_server_release_in_callback(r, c) ==
    /\ Running
    /\ rel_pc[r] = "idle"
    /\ \A q \in Releases : q < r => rel_pc[q] # "idle"
    /\ srv_pc[c] = "in_user_cb"
    /\ \A q \in Releases : rel_local[q].caller = c => rel_pc[q] = "done"
    /\ new_pc = "returned"
    /\ server.memory = "live"
    /\ rel_pc' = [rel_pc EXCEPT ![r] = "want_lock"]
    /\ rel_local' = [rel_local EXCEPT ![r].caller = c]
    /\ UNCHANGED <<server, lock, channel_to_connection_map, new_pc, listener, srv_pc,
                   srv_channel, srv_conn, srv_local, srv_events, srv_calls>>

\* What aws_mutex_lock can do with a mutex that aws_mutex_clean_up destroyed
\* and whose memory was released: come back as if it had locked it, or
\* never come back.
FreedMutexOutcomes == {"locked", "blocked"}

\* aws_http_server_release: s_server_lock_synced_data.  Once the teardown
\* has freed the server the mutex is read from freed memory.
server_release_lock(r) ==
    /\ Running
    /\ rel_pc[r] = "want_lock"
    /\ IF server.memory = "live"
       THEN /\ lock = LockFree
            /\ lock' = ReleaseThread(r)
            /\ rel_pc' = [rel_pc EXCEPT ![r] = "critical"]
            /\ UNCHANGED srv_calls
       ELSE /\ srv_calls' = [srv_calls EXCEPT !.use_after_free = TRUE]
            /\ \E outcome \in FreedMutexOutcomes :
                  rel_pc' = [rel_pc EXCEPT
                                ![r] = IF outcome = "locked" THEN "critical"
                                       ELSE "hung"]
            /\ UNCHANGED lock
    /\ UNCHANGED <<server, channel_to_connection_map, new_pc, listener, srv_pc,
                   srv_channel, srv_conn, srv_local, srv_events, rel_local>>

\* aws_http_server_release: the test and set of is_shutting_down, with the
\* lock held.  On freed memory the read yields either value.
server_release_critical(r) ==
    /\ Running
    /\ rel_pc[r] = "critical"
    /\ IF server.memory = "live"
       THEN /\ rel_local' = [rel_local EXCEPT
                                ![r].already_shutting_down = server.is_shutting_down]
            /\ server' = [server EXCEPT !.is_shutting_down = TRUE]
            /\ srv_calls' = IF server.is_shutting_down THEN srv_calls
                            ELSE [srv_calls EXCEPT !.flag_set = @ + 1]
       ELSE \E already \in BOOLEAN :
                /\ rel_local' = [rel_local EXCEPT ![r].already_shutting_down = already]
                /\ srv_calls' = [srv_calls EXCEPT
                                    !.use_after_free = TRUE,
                                    !.flag_set = IF already THEN @ ELSE @ + 1]
                /\ UNCHANGED server
    /\ rel_pc' = [rel_pc EXCEPT ![r] = "shutdown_channels"]
    /\ UNCHANGED <<lock, channel_to_connection_map, new_pc, listener, srv_pc,
                   srv_channel, srv_conn, srv_local, srv_events>>

\* aws_http_server_release: the loop over the registry (skipped when
\* already_shutting_down), s_server_unlock_synced_data and the test of
\* already_shutting_down.
server_release_shutdown_channels(r) ==
    /\ Running
    /\ rel_pc[r] = "shutdown_channels"
    /\ LET iter == IF rel_local[r].already_shutting_down THEN {}
                   ELSE MapKeys(channel_to_connection_map)
       IN  /\ rel_local' = [rel_local EXCEPT ![r].iter = iter]
           /\ srv_channel' =
                 [c \in Channels |->
                     IF c \in iter
                     THEN aws_channel_shutdown(srv_channel[c],
                                               AWS_ERROR_HTTP_CONNECTION_CLOSED)
                     ELSE srv_channel[c]]
    /\ lock' = IF lock = ReleaseThread(r) THEN LockFree ELSE lock
    /\ srv_calls' = IF server.memory = "live" THEN srv_calls
                    ELSE [srv_calls EXCEPT !.use_after_free = TRUE]
    /\ rel_pc' = [rel_pc EXCEPT
                     ![r] = IF rel_local[r].already_shutting_down THEN "done"
                            ELSE "destroy"]
    /\ UNCHANGED <<server, channel_to_connection_map, new_pc, listener, srv_pc,
                   srv_conn, srv_local, srv_events>>

\* A plausible slip: the listener is never asked to go away.
destroy_socket_listener_requests_dropped(requests) == requests

\* aws_server_bootstrap_destroy_socket_listener(server->bootstrap,
\* server->socket): one more request to the bootstrap.
destroy_socket_listener_requests(requests) == requests + 1

\* aws_http_server_release: aws_server_bootstrap_destroy_socket_listener
server_release_destroy(r) ==
    /\ Running
    /\ rel_pc[r] = "destroy"
    /\ srv_calls' = [srv_calls EXCEPT
                        !.destroy_socket_listener = destroy_socket_listener_requests(@),
                        !.use_after_free = @ \/ server.memory # "live"]
    /\ rel_pc' = [rel_pc EXCEPT ![r] = "done"]
    /\ UNCHANGED <<server, lock, channel_to_connection_map, new_pc, listener, srv_pc,
                   srv_channel, srv_conn, srv_local, srv_events, rel_local>>

\* A plausible slip: the teardown frees the server without telling the user.
on_destroy_complete_calls_none(on_destroy_complete) == 0

\* s_http_server_clean_up: "if (server->on_destroy_complete) ...(user_data)"
on_destroy_complete_calls(on_destroy_complete) ==
    IF on_destroy_complete THEN 1 ELSE 0

\* s_http_server_clean_up: the callback, the registry and mutex clean-up and
\* the release of the memory.
s_http_server_clean_up ==
    /\ srv_calls' = [srv_calls EXCEPT
                        !.on_destroy_complete =
                            @ + on_destroy_complete_calls(server.on_destroy_complete)]
    /\ channel_to_connection_map' = {}
    /\ server' = [server EXCEPT !.memory = "freed"]

\* s_server_bootstrap_on_server_listener_destroy.  The bootstrap calls it
\* once per listener, after destroy_socket_listener was asked for and every
\* channel the listener accepted has completed its shutdown callback.
s_server_bootstrap_on_server_listener_destroy ==
    /\ Running
    /\ listener.exists /\ ~listener.destroyed
    /\ srv_calls.destroy_socket_listener >= 1
    /\ \A c \in Channels : srv_pc[c] \in {"unborn", "no_channel", "done"}
    /\ s_http_server_clean_up
    /\ listener' = [listener EXCEPT !.destroyed = TRUE]
    /\ UNCHANGED <<lock, new_pc, srv_pc, srv_channel, srv_conn, srv_local, srv_events,
                   rel_pc, rel_local>>

-----------------------------------------------------------------------------
(* String utilities (strutil.c).  Pure functions of a byte cursor; a       *)
(* cursor is a view [ptr, len] into su_buf, ptr counted from 0.            *)

\* The bytes the inputs are made of: tab, LF, space, the digits 0 1 2 4 6 9,
\* the letters A F a f, and the bytes next to each digit range
\* ( / : @ G ` g ).
Bytes == {9, 10, 32, 47, 48, 49, 50, 52, 54, 57, 58, 64, 65, 70, 71, 96, 97, 102, 103}

ByteStrings == UNION {[1..n -> Bytes] : n \in 0..MaxStrLen}

\* Values of uint64_t, at the scaled width.
WordModulus == 2 ^ WordBits

\* s_ascii_to_num_table: '0'..'9' -> 0..9, 'A'..'F' and 'a'..'f' -> 10..15,
\* every other byte -> 255.
s_ascii_to_num_table(c) ==
    IF c >= 48 /\ c <= 57 THEN c - 48
    ELSE IF c >= 65 /\ c <= 70 THEN c - 55
    ELSE IF c >= 97 /\ c <= 102 THEN c - 87
    ELSE 255

NoReadResult == [rc |-> "none", error |-> AWS_ERROR_SUCCESS, dst |-> 0]

ReadFailed(error) == [rc |-> AWS_OP_ERR, error |-> error, dst |-> 0]

\* s_read_unsigned: the loop, from byte i on with val computed so far.
RECURSIVE s_read_unsigned_loop(_, _, _, _)
s_read_unsigned_loop(bytes, base, i, val) ==
    IF i > Len(bytes)
    THEN [rc |-> AWS_OP_SUCCESS, error |-> AWS_ERROR_SUCCESS, dst |-> val]
    ELSE LET cval == s_ascii_to_num_table(bytes[i])
             prev_val == val
             multiplied == (val * base) % WordModulus
             added == (multiplied + cval) % WordModulus
         IN  IF cval >= base THEN ReadFailed(AWS_ERROR_INVALID_ARGUMENT)
             ELSE IF multiplied < prev_val THEN ReadFailed(AWS_ERROR_OVERFLOW_DETECTED)
             ELSE IF added < prev_val THEN ReadFailed(AWS_ERROR_OVERFLOW_DETECTED)
             ELSE s_read_unsigned_loop(bytes, base, i + 1, added)

\* s_read_unsigned(cursor, dst, base) on the bytes of the cursor.
s_read_unsigned(bytes, base) ==
    IF Len(bytes) = 0 THEN ReadFailed(AWS_ERROR_INVALID_ARGUMENT)
    ELSE s_read_unsigned_loop(bytes, base, 1, 0)

\* A plausible slip: line feed counted as whitespace too.
s_http_whitespace_table_with_lf(c) == c \in {32, 9, 10}

\* s_http_whitespace_table: true for ' ' and '\t'.
s_http_whitespace_table(c) == c \in {32, 9}

\* The byte i places after the start of the cursor.
ByteAt(buf, cursor, i) == buf[cursor.ptr + i + 1]

\* A plausible slip: "if" for the loop, one leading byte is trimmed at most.
s_trim_leading_once(buf, cursor, i) ==
    IF cursor.len > 0 /\ s_http_whitespace_table(ByteAt(buf, cursor, 0)) THEN 1 ELSE 0

\* s_trim: the first loop, the value of i it ends with.
RECURSIVE s_trim_leading(_, _, _)
s_trim_leading(buf, cursor, i) ==
    IF i < cursor.len /\ s_http_whitespace_table(ByteAt(buf, cursor, i))
    THEN s_trim_leading(buf, cursor, i + 1)
    ELSE i

\* s_trim: the second loop, the cursor it ends with.
RECURSIVE s_trim_trailing(_, _)
s_trim_trailing(buf, cursor) ==
    IF cursor.len > 0 /\ s_http_whitespace_table(ByteAt(buf, cursor, cursor.len - 1))
    THEN s_trim_trailing(buf, [cursor EXCEPT !.len = @ - 1])
    ELSE cursor

\* s_trim(cursor, s_http_whitespace_table)
s_trim(buf, cursor) ==
    LET i == s_trim_leading(buf, cursor, 0)
    IN  s_trim_trailing(buf, [ptr |-> cursor.ptr + i, len |-> cursor.len - i])

WholeCursor(buf) == [ptr |-> 0, len |-> Len(buf)]

NoCursor == [ptr |-> 0, len |-> 0]

SuIdle ==
    /\ su_buf = <<>>
    /\ su_pc = "done"
    /\ su_out = NoReadResult
    /\ su_view = NoCursor
    /\ su_view2 = NoCursor

SuInit ==
    /\ su_buf \in ByteStrings
    /\ su_pc = "start"
    /\ su_out = NoReadResult
    /\ su_view = NoCursor
    /\ su_view2 = NoCursor

\* aws_strutil_read_unsigned_num(cursor, dst)
aws_strutil_read_unsigned_num ==
    /\ su_pc = "start"
    /\ su_out' = s_read_unsigned(su_buf, 10)
    /\ su_pc' = "num"
    /\ UNCHANGED <<su_buf, su_view, su_view2>>

\* aws_strutil_read_unsigned_hex(cursor, dst)
aws_strutil_read_unsigned_hex ==
    /\ su_pc = "start"
    /\ su_out' = s_read_unsigned(su_buf, 16)
    /\ su_pc' = "hex"
    /\ UNCHANGED <<su_buf, su_view, su_view2>>

\* aws_strutil_trim_http_whitespace(cursor), on the whole buffer.
aws_strutil_trim_http_whitespace ==
    /\ su_pc = "start"
    /\ su_view' = s_trim(su_buf, WholeCursor(su_buf))
    /\ su_pc' = "trimmed"
    /\ UNCHANGED <<su_buf, su_out, su_view2>>

\* aws_strutil_trim_http_whitespace(cursor), on the cursor the first call
\* returned.
aws_strutil_trim_http_whitespace_again ==
    /\ su_pc = "trimmed"
    /\ su_view2' = s_trim(su_buf, su_view)
    /\ su_pc' = "trimmed_twice"
    /\ UNCHANGED <<su_buf, su_out, su_view>>

-----------------------------------------------------------------------------
(* What the holder of a connection the factory returned can call on it.    *)

\* aws_http_connection_get_version
aws_http_connection_get_version(connection) == connection.http_version

\* A reference is still held on the connection and more calls may be made.
FactoryUsable == f_done /\ f_out.ok /\ f_out.connection.refcount >= 1
                 /\ f_uses < MaxFactoryUses

FactoryUserAcquire ==
    /\ FactoryUsable
    /\ f_out' = [f_out EXCEPT !.connection = aws_http_connection_acquire(@)]
    /\ f_uses' = f_uses + 1
    /\ UNCHANGED <<f_in, f_done>>

FactoryUserRelease ==
    /\ FactoryUsable
    /\ LET out == aws_http_connection_release(f_out.connection, f_out.channel)
       IN  f_out' = [f_out EXCEPT !.connection = out.connection,
                                  !.channel = out.channel]
    /\ f_uses' = f_uses + 1
    /\ UNCHANGED <<f_in, f_done>>

FactoryUserConfigure ==
    /\ FactoryUsable
    /\ \E options \in CallbackConfigureOptions :
          f_out' = [f_out EXCEPT
                       !.connection =
                           aws_http_connection_configure_server(FALSE, @, options)
                               .connection]
    /\ f_uses' = f_uses + 1
    /\ UNCHANGED <<f_in, f_done>>

-----------------------------------------------------------------------------
(* Specifications                                                          *)

\* Each specification runs one part of the core; the other parts stand still.
ClientOnly == UNCHANGED <<f_vars, cfg_vars, rc_vars, srv_vars, su_vars>>

FactoryOnly == UNCHANGED <<cl_vars, cfg_vars, rc_vars, srv_vars, su_vars>>

ConfigureOnly == UNCHANGED <<cl_vars, f_vars, rc_vars, srv_vars, su_vars>>

RefcountOnly == UNCHANGED <<cl_vars, f_vars, cfg_vars, srv_vars, su_vars>>

ServerOnly == UNCHANGED <<cl_vars, f_vars, cfg_vars, rc_vars, su_vars>>

StrutilOnly == UNCHANGED <<cl_vars, f_vars, cfg_vars, rc_vars, srv_vars>>

InitClient == ClInit /\ FIdle /\ CfgIdle /\ RcIdle /\ SrvInit /\ SuIdle

NextClient ==
    \E a \in Attempts :
       \/ aws_http_client_connect(a) /\ ClientOnly
       \/ s_client_bootstrap_on_channel_setup(a) /\ ClientOnly
       \/ s_client_bootstrap_on_channel_setup_return(a) /\ ClientOnly
       \/ s_client_bootstrap_on_channel_shutdown(a) /\ ClientOnly
       \/ ClUserRelease(a) /\ ClientOnly

SpecClient == InitClient /\ [][NextClient]_vars

InitFactory == ClInit /\ FInit /\ CfgIdle /\ RcIdle /\ SrvInit /\ SuIdle

NextFactory ==
    \/ CallConnectionNew /\ FactoryOnly
    \/ FactoryUserAcquire /\ FactoryOnly
    \/ FactoryUserRelease /\ FactoryOnly
    \/ FactoryUserConfigure /\ FactoryOnly

SpecFactory == InitFactory /\ [][NextFactory]_vars

InitConfigure == ClInit /\ FIdle /\ CfgInit /\ RcIdle /\ SrvInit /\ SuIdle

NextConfigure == CallConfigureServer /\ ConfigureOnly

SpecConfigure == InitConfigure /\ [][NextConfigure]_vars

InitRefcount == ClInit /\ FIdle /\ CfgIdle /\ RcInit /\ SrvInit /\ SuIdle

NextRefcount ==
    \E t \in Threads :
       \/ RcAcquire(t) /\ RefcountOnly
       \/ RcReleaseFetchSub(t) /\ RefcountOnly
       \/ RcReleaseShutdown(t) /\ RefcountOnly
       \/ RcReleaseHold(t) /\ RefcountOnly

SpecRefcount == InitRefcount /\ [][NextRefcount]_vars

InitServer == ClInit /\ FIdle /\ CfgIdle /\ RcIdle /\ SrvInit /\ SuIdle

NextServer ==
    \/ aws_http_server_new /\ ServerOnly
    \/ aws_http_server_new_assign_socket /\ ServerOnly
    \/ aws_http_server_new_unlock /\ ServerOnly
    \/ aws_http_server_new_return /\ ServerOnly
    \/ s_server_bootstrap_on_server_listener_destroy /\ ServerOnly
    \/ \E c \in Channels :
          \/ s_server_bootstrap_on_accept_channel_setup(c) /\ ServerOnly
          \/ accept_setup_lock(c) /\ ServerOnly
          \/ accept_setup_critical(c) /\ ServerOnly
          \/ user_configure_server(c) /\ ServerOnly
          \/ accept_setup_callback_returns(c) /\ ServerOnly
          \/ accept_setup_error(c) /\ ServerOnly
          \/ s_server_bootstrap_on_accept_channel_shutdown(c) /\ ServerOnly
          \/ accept_shutdown_remove(c) /\ ServerOnly
          \/ accept_shutdown_notify(c) /\ ServerOnly
    \/ \E r \in Releases :
          \/ aws_http_server_release(r) /\ ServerOnly
          \/ server_release_lock(r) /\ ServerOnly
          \/ server_release_critical(r) /\ ServerOnly
          \/ server_release_shutdown_channels(r) /\ ServerOnly
          \/ server_release_destroy(r) /\ ServerOnly

SpecServer == InitServer /\ [][NextServer]_vars

\* The channel runtime has been asked to shut channel c down.
ShutdownRequested(c) == Len(srv_channel[c].shutdown) > 0

\* What the server path is promised about progress: a thread inside the core
\* goes on (the lock is handed to a waiting thread once it is free), a user
\* callback returns, the channel runtime completes every requested channel
\* shutdown, and the bootstrap fires listener-destroy once it was asked to
\* and every accepted channel has shut down.  Nothing obliges a peer to
\* connect or the user to call anything.
FairServer ==
    /\ \A c \in Channels :
          /\ WF_vars(accept_setup_lock(c) /\ ServerOnly)
          /\ WF_vars(accept_setup_critical(c) /\ ServerOnly)
          /\ WF_vars(accept_setup_callback_returns(c) /\ ServerOnly)
          /\ WF_vars(accept_setup_error(c) /\ ServerOnly)
          /\ WF_vars(ShutdownRequested(c)
                       /\ s_server_bootstrap_on_accept_channel_shutdown(c) /\ ServerOnly)
          /\ WF_vars(accept_shutdown_remove(c) /\ ServerOnly)
          /\ WF_vars(accept_shutdown_notify(c) /\ ServerOnly)
    /\ WF_vars(server_release_lock(1) /\ ServerOnly)
    /\ WF_vars(server_release_critical(1) /\ ServerOnly)
    /\ WF_vars(server_release_shutdown_channels(1) /\ ServerOnly)
    /\ WF_vars(server_release_destroy(1) /\ ServerOnly)
    /\ WF_vars(s_server_bootstrap_on_server_listener_destroy /\ ServerOnly)

\* The server path with one server_release call, the first.
InitServerLive == ClInit /\ FIdle /\ CfgIdle /\ RcIdle /\ SrvInit /\ SuIdle

NextServerLive ==
    \/ aws_http_server_new /\ ServerOnly
    \/ aws_http_server_new_assign_socket /\ ServerOnly
    \/ aws_http_server_new_unlock /\ ServerOnly
    \/ aws_http_server_new_return /\ ServerOnly
    \/ s_server_bootstrap_on_server_listener_destroy /\ ServerOnly
    \/ \E c \in Channels :
          \/ s_server_bootstrap_on_accept_channel_setup(c) /\ ServerOnly
          \/ accept_setup_lock(c) /\ ServerOnly
          \/ accept_setup_critical(c) /\ ServerOnly
          \/ user_configure_server(c) /\ ServerOnly
          \/ accept_setup_callback_returns(c) /\ ServerOnly
          \/ accept_setup_error(c) /\ ServerOnly
          \/ s_server_bootstrap_on_accept_channel_shutdown(c) /\ ServerOnly
          \/ accept_shutdown_remove(c) /\ ServerOnly
          \/ accept_shutdown_notify(c) /\ ServerOnly
    \/ aws_http_server_release(1) /\ ServerOnly
    \/ server_release_lock(1) /\ ServerOnly
    \/ server_release_critical(1) /\ ServerOnly
    \/ server_release_shutdown_channels(1) /\ ServerOnly
    \/ server_release_destroy(1) /\ ServerOnly

SpecServerLive == InitServerLive /\ [][NextServerLive]_vars /\ FairServer

\* The connection handles the user is given, on both paths, with the user
\* acquiring and releasing them: the client path, and the server path with
\* its first accepted channel and no server_release call (server_release
\* touches no connection's reference count).
InitHandles == ClInit /\ FIdle /\ CfgIdle /\ RcIdle /\ SrvInit /\ SuIdle

NextHandles ==
    \/ \E a \in Attempts :
          \/ aws_http_client_connect(a) /\ ClientOnly
          \/ s_client_bootstrap_on_channel_setup(a) /\ ClientOnly
          \/ s_client_bootstrap_on_channel_setup_return(a) /\ ClientOnly
          \/ s_client_bootstrap_on_channel_shutdown(a) /\ ClientOnly
          \/ ClUserAcquire(a) /\ ClientOnly
          \/ ClUserRelease(a) /\ ClientOnly
    \/ aws_http_server_new /\ ServerOnly
    \/ aws_http_server_new_assign_socket /\ ServerOnly
    \/ aws_http_server_new_unlock /\ ServerOnly
    \/ aws_http_server_new_return /\ ServerOnly
    \/ s_server_bootstrap_on_accept_channel_setup(1) /\ ServerOnly
    \/ accept_setup_lock(1) /\ ServerOnly
    \/ accept_setup_critical(1) /\ ServerOnly
    \/ user_configure_server(1) /\ ServerOnly
    \/ accept_setup_callback_returns(1) /\ ServerOnly
    \/ accept_setup_error(1) /\ ServerOnly
    \/ SrvUserAcquire(1) /\ ServerOnly
    \/ SrvUserRelease(1) /\ ServerOnly
    \/ s_server_bootstrap_on_accept_channel_shutdown(1) /\ ServerOnly
    \/ accept_shutdown_remove(1) /\ ServerOnly
    \/ accept_shutdown_notify(1) /\ ServerOnly

SpecHandles == InitHandles /\ [][NextHandles]_vars

\* The server path with a user that keeps using the handle
\* on_incoming_connection gave it after the callback returned: it acquires,
\* releases and configures the connection of the first accepted channel.
InitLateConfigure == ClInit /\ FIdle /\ CfgIdle /\ RcIdle /\ SrvInit /\ SuIdle

NextLateConfigure ==
    \/ aws_http_server_new /\ ServerOnly
    \/ aws_http_server_new_assign_socket /\ ServerOnly
    \/ aws_http_server_new_unlock /\ ServerOnly
    \/ aws_http_server_new_return /\ ServerOnly
    \/ s_server_bootstrap_on_accept_channel_setup(1) /\ ServerOnly
    \/ accept_setup_lock(1) /\ ServerOnly
    \/ accept_setup_critical(1) /\ ServerOnly
    \/ user_configure_server(1) /\ ServerOnly
    \/ accept_setup_callback_returns(1) /\ ServerOnly
    \/ accept_setup_error(1) /\ ServerOnly
    \/ SrvUserAcquire(1) /\ ServerOnly
    \/ SrvUserRelease(1) /\ ServerOnly
    \/ user_configure_server_late(1) /\ ServerOnly
    \/ s_server_bootstrap_on_accept_channel_shutdown(1) /\ ServerOnly
    \/ accept_shutdown_remove(1) /\ ServerOnly
    \/ accept_shutdown_notify(1) /\ ServerOnly

SpecLateConfigure == InitLateConfigure /\ [][NextLateConfigure]_vars

\* The server path with server_release called from the user's threads and
\* from inside on_incoming_connection.
InitLock == ClInit /\ FIdle /\ CfgIdle /\ RcIdle /\ SrvInit /\ SuIdle

NextLock ==
    \/ aws_http_server_new /\ ServerOnly
    \/ aws_http_server_new_assign_socket /\ ServerOnly
    \/ aws_http_server_new_unlock /\ ServerOnly
    \/ aws_http_server_new_return /\ ServerOnly
    \/ s_server_bootstrap_on_server_listener_destroy /\ ServerOnly
    \/ \E c \in Channels :
          \/ s_server_bootstrap_on_accept_channel_setup(c) /\ ServerOnly
          \/ accept_setup_lock(c) /\ ServerOnly
          \/ accept_setup_critical(c) /\ ServerOnly
          \/ user_configure_server(c) /\ ServerOnly
          \/ accept_setup_callback_returns(c) /\ ServerOnly
          \/ accept_setup_error(c) /\ ServerOnly
          \/ s_server_bootstrap_on_accept_channel_shutdown(c) /\ ServerOnly
          \/ accept_shutdown_remove(c) /\ ServerOnly
          \/ accept_shutdown_notify(c) /\ ServerOnly
    \/ \E r \in Releases :
          \/ aws_http_server_release(r) /\ ServerOnly
          \/ \E c \in Channels : aws_http_server_release_in_callback(r, c) /\ ServerOnly
          \/ server_release_lock(r) /\ ServerOnly
          \/ server_release_critical(r) /\ ServerOnly
          \/ server_release_shutdown_channels(r) /\ ServerOnly
          \/ server_release_destroy(r) /\ ServerOnly

SpecLock == InitLock /\ [][NextLock]_vars

\* The client path and the server path side by side, the server with its
\* first accepted channel and its first server_release call only.
InitCallbacks == ClInit /\ FIdle /\ CfgIdle /\ RcIdle /\ SrvInit /\ SuIdle

NextCallbacks ==
    \/ \E a \in Attempts :
          \/ aws_http_client_connect(a) /\ ClientOnly
          \/ s_client_bootstrap_on_channel_setup(a) /\ ClientOnly
          \/ s_client_bootstrap_on_channel_setup_return(a) /\ ClientOnly
          \/ s_client_bootstrap_on_channel_shutdown(a) /\ ClientOnly
          \/ ClUserRelease(a) /\ ClientOnly
    \/ aws_http_server_new /\ ServerOnly
    \/ aws_http_server_new_assign_socket /\ ServerOnly
    \/ aws_http_server_new_unlock /\ ServerOnly
    \/ aws_http_server_new_return /\ ServerOnly
    \/ s_server_bootstrap_on_server_listener_destroy /\ ServerOnly
    \/ s_server_bootstrap_on_accept_channel_setup(1) /\ ServerOnly
    \/ accept_setup_lock(1) /\ ServerOnly
    \/ accept_setup_critical(1) /\ ServerOnly
    \/ user_configure_server(1) /\ ServerOnly
    \/ accept_setup_callback_returns(1) /\ ServerOnly
    \/ accept_setup_error(1) /\ ServerOnly
    \/ s_server_bootstrap_on_accept_channel_shutdown(1) /\ ServerOnly
    \/ accept_shutdown_remove(1) /\ ServerOnly
    \/ accept_shutdown_notify(1) /\ ServerOnly
    \/ aws_http_server_release(1) /\ ServerOnly
    \/ server_release_lock(1) /\ ServerOnly
    \/ server_release_critical(1) /\ ServerOnly
    \/ server_release_shutdown_channels(1) /\ ServerOnly
    \/ server_release_destroy(1) /\ ServerOnly

SpecCallbacks == InitCallbacks /\ [][NextCallbacks]_vars

InitStrutil == ClInit /\ FIdle /\ CfgIdle /\ RcIdle /\ SrvInit /\ SuInit

NextStrutil ==
    \/ aws_strutil_read_unsigned_num /\ StrutilOnly
    \/ aws_strutil_read_unsigned_hex /\ StrutilOnly
    \/ aws_strutil_trim_http_whitespace /\ StrutilOnly
    \/ aws_strutil_trim_http_whitespace_again /\ StrutilOnly

SpecStrutil == InitStrutil /\ [][NextStrutil]_vars

-----------------------------------------------------------------------------
(* Properties of the client connect path                                   *)

SetupEvents(a) == SelectSeq(cl_events[a], LAMBDA e : e.cb = "on_setup")

ShutdownEvents(a) == SelectSeq(cl_events[a], LAMBDA e : e.cb = "on_shutdown")

\* client_connect returned success for the attempt.
ConnectSucceeded(a) == cl_pc[a] \notin {"idle", "invalid_argument", "connect_failed"}

\* The attempt is over: its last bootstrap callback has run.
AttemptOver(a) == cl_pc[a] \in {"setup_failed", "shutdown_done"}

SetupSucceeded(a) ==
    \E i \in 1..Len(cl_events[a]) :
       cl_events[a][i] = Event("on_setup", a, AWS_ERROR_SUCCESS)

\* C1: for a client_connect that returned success, on_setup is never invoked
\* twice, every invocation is either on_setup(conn, 0) with a non-null
\* connection or on_setup(null, err) with err != 0, and once the attempt's
\* last bootstrap callback has run on_setup has been invoked exactly once.
C1_OnSetupExactlyOnce ==
    \A a \in Attempts :
       /\ Len(SetupEvents(a)) <= 1
       /\ \A i \in 1..Len(SetupEvents(a)) :
             LET e == SetupEvents(a)[i]
             IN  \/ e.connection # 0 /\ e.error_code = AWS_ERROR_SUCCESS
                 \/ e.connection = 0 /\ e.error_code # AWS_ERROR_SUCCESS
       /\ Len(SetupEvents(a)) > 0 => ConnectSucceeded(a)
       /\ AttemptOver(a) => Len(SetupEvents(a)) = 1

\* A successful setup followed by the channel's shutdown callback.
C1_Witness ==
    \E a \in Attempts :
       /\ cl_pc[a] = "shutdown_done"
       /\ SetupEvents(a) = <<Event("on_setup", a, AWS_ERROR_SUCCESS)>>

\* What C2 says of on_shutdown, apart from "if setup succeeded it is invoked":
\* at most once, only after an earlier on_setup(conn, 0) of the attempt, not
\* while on_setup is still running, never after on_setup(null, err).
OnShutdownOnlyAfterSetup(a) ==
    /\ Len(ShutdownEvents(a)) <= 1
    /\ \A i \in 1..Len(cl_events[a]) :
          cl_events[a][i].cb = "on_shutdown" =>
             /\ \E j \in 1..(i - 1) :
                   cl_events[a][j] = Event("on_setup", a, AWS_ERROR_SUCCESS)
             /\ cl_events[a][i].connection = a
    /\ cl_pc[a] \in {"connecting", "in_on_setup", "setup_returned"} =>
          ShutdownEvents(a) = <<>>
    /\ (\E i \in 1..Len(cl_events[a]) :
           cl_events[a][i].cb = "on_setup" /\ cl_events[a][i].connection = 0)
          => ShutdownEvents(a) = <<>>

\* C2 as claimed: on_shutdown is invoked (exactly once, when the shutdown
\* callback fires) if and only if on_setup(conn, 0) was invoked.
C2_Original ==
    \A a \in Attempts :
       /\ OnShutdownOnlyAfterSetup(a)
       /\ AttemptOver(a) => (Len(ShutdownEvents(a)) = 1 <=> SetupSucceeded(a))

\* C2 (amended): on_shutdown is invoked if and only if on_setup(conn, 0) was
\* invoked earlier for the attempt and the options carried an on_shutdown
\* callback; then exactly once, from the channel-shutdown callback, after
\* on_setup returned; never for an attempt reported as on_setup(null, err).
C2_OnShutdownIffSetupSucceeded ==
    \A a \in Attempts :
       /\ OnShutdownOnlyAfterSetup(a)
       /\ AttemptOver(a) =>
             (Len(ShutdownEvents(a)) = 1
                <=> SetupSucceeded(a) /\ http_bootstrap[a].on_shutdown)

\* The shutdown callback ran after a successful setup and invoked on_shutdown.
C2_Witness ==
    \E a \in Attempts :
       /\ cl_pc[a] = "shutdown_done"
       /\ Len(cl_events[a]) = 2
       /\ cl_events[a][1] = Event("on_setup", a, AWS_ERROR_SUCCESS)
       /\ cl_events[a][2].cb = "on_shutdown"

\* The factory failed inside the attempt's channel-setup callback: the
\* callback returned and left no connection in the bootstrap record.
FactoryFailedInSetup(a) ==
    /\ cl_pc[a] \in {"setup_returned", "shutdown_done"}
    /\ http_bootstrap[a].connection = 0

\* C13: when the factory fails inside the client channel-setup callback, that
\* callback invokes no on_setup and requests channel shutdown with the last
\* error; the channel-shutdown callback then reports on_setup(null, err), err
\* the error it was given or unknown if that was 0; on_shutdown is never
\* invoked for the attempt.
C13_FactoryFailureDeferred ==
    \A a \in Attempts :
       FactoryFailedInSetup(a) =>
          /\ ~cl_conn[a].exists
          /\ Len(cl_channel[a].shutdown) = 1
          /\ IsError(cl_channel[a].shutdown[1])
          /\ cl_pc[a] = "setup_returned" => cl_events[a] = <<>>
          /\ cl_pc[a] = "shutdown_done" =>
                /\ Len(cl_events[a]) = 1
                /\ cl_events[a][1].cb = "on_setup"
                /\ cl_events[a][1].connection = 0
                /\ IsError(cl_events[a][1].error_code)
                /\ cl_events[a][1].error_code =
                      (IF cl_shutdown_error[a] = AWS_ERROR_SUCCESS
                       THEN AWS_ERROR_UNKNOWN ELSE cl_shutdown_error[a])

\* The factory failed, the channel shut down with error 0 and the user was
\* told on_setup(null, unknown).
C13_Witness ==
    \E a \in Attempts :
       /\ FactoryFailedInSetup(a)
       /\ cl_pc[a] = "shutdown_done"
       /\ cl_shutdown_error[a] = AWS_ERROR_SUCCESS
       /\ cl_events[a] = <<Event("on_setup", 0, AWS_ERROR_UNKNOWN)>>

\* The attempt's setup succeeded and its channel-shutdown callback has run.
ShutDownAfterSetup(a) == cl_pc[a] = "shutdown_done" /\ SetupSucceeded(a)

\* C15 as the specification words it: after a successful setup the
\* channel-shutdown callback with error e makes on_shutdown(conn, e)
\* observed, conn the connection given to on_setup, and the connection's
\* reference count is released.
C15_Original ==
    \A a \in Attempts :
       ShutDownAfterSetup(a) =>
          /\ cl_events[a] = <<Event("on_setup", a, AWS_ERROR_SUCCESS),
                              Event("on_shutdown", a, cl_shutdown_error[a])>>
          /\ cl_conn[a].refcount = 0

\* C15: after a successful setup of an attempt whose options carried an
\* on_shutdown callback, the channel-shutdown callback with error e invokes
\* on_shutdown(conn, e) with the connection given to on_setup and the same e
\* (with no callback given it invokes nothing); the callback releases no
\* reference: the count is what the user still holds, and the user's last
\* release shuts the channel down with 0 and drops the channel hold.
C15_OnShutdownCarriesError ==
    \A a \in Attempts :
       ShutDownAfterSetup(a) =>
          /\ cl_events[a] =
                IF http_bootstrap[a].on_shutdown
                THEN <<Event("on_setup", a, AWS_ERROR_SUCCESS),
                       Event("on_shutdown", a, cl_shutdown_error[a])>>
                ELSE <<Event("on_setup", a, AWS_ERROR_SUCCESS)>>
          /\ cl_conn[a].refcount = cl_user_refs[a]
          /\ cl_user_refs[a] = 0 =>
                /\ cl_channel[a].holds = 0
                /\ cl_channel[a].shutdown = <<AWS_ERROR_SUCCESS>>
          /\ cl_user_refs[a] > 0 =>
                /\ cl_channel[a].holds = 1
                /\ cl_channel[a].shutdown = <<>>

\* on_shutdown(conn, e) with a non-zero e was observed and the user has
\* released the connection.
C15_Witness ==
    \E a \in Attempts :
       /\ ShutDownAfterSetup(a)
       /\ IsError(cl_shutdown_error[a])
       /\ Len(cl_events[a]) = 2
       /\ cl_events[a][2] = Event("on_shutdown", a, cl_shutdown_error[a])
       /\ cl_conn[a].refcount = 0

\* The callbacks of attempt a that read the ClientBootstrapRecord.
RecordReaders(a) ==
    \/ s_client_bootstrap_on_channel_setup(a)
    \/ s_client_bootstrap_on_channel_setup_return(a)
    \/ s_client_bootstrap_on_channel_shutdown(a)

\* C21: the ClientBootstrapRecord is released exactly once on every path: in
\* client_connect when the bootstrap call fails synchronously, in the setup
\* callback when the bootstrap reports an error with no channel, otherwise in
\* the shutdown callback; never twice, never leaked once its callbacks have
\* fired, and no callback that reads it can run after the release.
C21_RecordReleasedOnce ==
    \A a \in Attempts :
        LET record == http_bootstrap[a]
        IN  /\ record.released <= 1
            /\ record.allocated <=> cl_call[a].records_allocated = 1
            /\ ~record.allocated => record.released = 0
            /\ record.allocated =>
                  /\ cl_pc[a] \in {"connect_failed", "setup_failed", "shutdown_done"}
                        <=> record.released = 1
                  /\ cl_pc[a] = "connect_failed" => cl_events[a] = <<>>
                  /\ cl_pc[a] = "setup_failed" =>
                        /\ ~cl_channel[a].exists
                        /\ Len(cl_events[a]) = 1
                  /\ cl_pc[a] = "shutdown_done" => cl_channel[a].exists
            /\ record.released = 1 => ~ENABLED RecordReaders(a)

\* The record was released by the shutdown callback, which had delivered the
\* deferred setup failure from it.
C21_Witness ==
    \E a \in Attempts :
        /\ cl_pc[a] = "shutdown_done"
        /\ http_bootstrap[a].released = 1
        /\ http_bootstrap[a].on_setup
        /\ Len(cl_events[a]) = 1
        /\ cl_events[a][1].cb = "on_setup"
        /\ cl_events[a][1].connection = 0

\* C22 as stated: client_connect called with invalid input (null options
\* included) fails synchronously with invalid-argument, allocates no record,
\* calls neither new_socket_channel nor new_tls_socket_channel and invokes
\* no user callback.
C22_Original ==
    \A a \in Attempts :
        (cl_call[a].called /\ ~cl_call[a].options_valid) =>
            /\ cl_pc[a] = "invalid_argument"
            /\ cl_call[a].last_error = AWS_ERROR_INVALID_ARGUMENT
            /\ cl_call[a].records_allocated = 0
            /\ ~http_bootstrap[a].allocated
            /\ cl_call[a].new_socket_channel = 0
            /\ cl_call[a].new_tls_socket_channel = 0
            /\ cl_events[a] = <<>>

\* client_connect was given a NULL options pointer and the process died
\* reading through it.
C22_Witness ==
    \E a \in Attempts :
        /\ cl_call[a].called
        /\ cl_call[a].options_null
        /\ cl_pc[a] = "crashed"

\* With an options pointer that is not NULL the claim holds for each missing
\* field.
C22_InvalidFieldsRejected ==
    \A a \in Attempts :
        (cl_call[a].called /\ ~cl_call[a].options_valid /\ ~cl_call[a].options_null) =>
            /\ cl_pc[a] = "invalid_argument"
            /\ cl_call[a].last_error = AWS_ERROR_INVALID_ARGUMENT
            /\ cl_call[a].records_allocated = 0
            /\ ~http_bootstrap[a].allocated
            /\ cl_call[a].new_socket_channel = 0
            /\ cl_call[a].new_tls_socket_channel = 0
            /\ cl_events[a] = <<>>

-----------------------------------------------------------------------------
(* Properties of the reference count                                       *)

RECURSIVE SumHeld(_)
SumHeld(S) ==
    IF S = {} THEN 0
    ELSE LET t == CHOOSE x \in S : TRUE IN rc_held[t] + SumHeld(S \ {t})

\* The threads that are past the fetch-sub of a final release.
InFinalRelease == {t \in Threads : rc_pc[t] # "idle"}

\* C5: whatever the interleaving of acquire and release calls of several
\* threads, the channel is touched only by the release that fetched 1: while
\* references are left the channel has seen no shutdown and keeps its hold,
\* at most one thread ever runs the side effects, and once that release has
\* returned the channel has been shut down once, with the success code, and
\* its hold released once.
C5_OnlyLastReleaseActs ==
    /\ rc_conn.refcount = SumHeld(Threads)
    /\ Cardinality(InFinalRelease) <= 1
    /\ rc_conn.refcount > 0 =>
          InFinalRelease = {} /\ rc_channel.shutdown = <<>> /\ rc_channel.holds = 1
    /\ \A t \in Threads :
          /\ rc_pc[t] = "shutdown" =>
                rc_channel.shutdown = <<>> /\ rc_channel.holds = 1
          /\ rc_pc[t] = "release_hold" =>
                rc_channel.shutdown = <<AWS_ERROR_SUCCESS>> /\ rc_channel.holds = 1
    /\ rc_conn.refcount = 0 /\ InFinalRelease = {} =>
          rc_channel.shutdown = <<AWS_ERROR_SUCCESS>> /\ rc_channel.holds = 0

\* Several acquires and releases by several threads, the last release done.
C5_Witness ==
    /\ rc_acquires >= 2
    /\ rc_conn.refcount = 0
    /\ InFinalRelease = {}
    /\ rc_channel.shutdown = <<AWS_ERROR_SUCCESS>>
    /\ rc_channel.holds = 0

-----------------------------------------------------------------------------
(* Properties of configure_server                                          *)

ArgumentMissing(call) ==
    \/ call.connection_is_null
    \/ call.options.is_null
    \/ call.options.on_incoming_request = "NULL"

\* C8: configure_server fails with invalid-argument when the connection, the
\* options or options.on_incoming_request is missing, with invalid-state on
\* a client connection and with invalid-state on a connection that is
\* already configured; a failing call leaves user_data, on_incoming_request
\* and on_shutdown as they were; a connection is configured at most once.
C8_ConfigureServerFailures ==
    /\ cfg_successes <= 1
    /\ cfg_last.called =>
          /\ ArgumentMissing(cfg_last) =>
                cfg_last.rc = AWS_OP_ERR /\ cfg_last.error = AWS_ERROR_INVALID_ARGUMENT
          /\ ~ArgumentMissing(cfg_last) /\ ~cfg_last.before.server_data =>
                cfg_last.rc = AWS_OP_ERR /\ cfg_last.error = AWS_ERROR_INVALID_STATE
          /\ /\ ~ArgumentMissing(cfg_last)
             /\ cfg_last.before.server_data
             /\ cfg_last.before.on_incoming_request # "NULL"
             => cfg_last.rc = AWS_OP_ERR /\ cfg_last.error = AWS_ERROR_INVALID_STATE
          /\ cfg_last.rc = AWS_OP_ERR =>
                /\ cfg_conn.user_data = cfg_last.before.user_data
                /\ cfg_conn.on_incoming_request = cfg_last.before.on_incoming_request
                /\ cfg_conn.on_shutdown = cfg_last.before.on_shutdown
          /\ cfg_last.rc = AWS_OP_SUCCESS =>
                /\ cfg_last.before.on_incoming_request = "NULL"
                /\ cfg_conn.on_incoming_request = cfg_last.options.on_incoming_request

\* A valid call on a server connection that an earlier call configured.
C8_Witness ==
    /\ cfg_last.called
    /\ ~ArgumentMissing(cfg_last)
    /\ cfg_last.before.server_data
    /\ cfg_successes = 1
    /\ cfg_last.rc = AWS_OP_ERR
    /\ cfg_last.error = AWS_ERROR_INVALID_STATE
    /\ cfg_last.options.on_incoming_request # cfg_conn.on_incoming_request

-----------------------------------------------------------------------------
(* Properties of the connection factory                                    *)

\* The mapping as the specification states it.
ClaimedVersion(is_using_tls, protocol) ==
    IF ~is_using_tls THEN AWS_HTTP_VERSION_1_1
    ELSE IF protocol = <<104, 116, 116, 112, 47, 49, 46, 49>> THEN AWS_HTTP_VERSION_1_1
    ELSE IF protocol = <<104, 50>> THEN AWS_HTTP_VERSION_2
    ELSE AWS_HTTP_VERSION_1_1

\* C10: the version the factory chooses depends on (is_using_tls, negotiated
\* protocol) alone: 1.1 without TLS whatever the channel holds; with TLS,
\* "http/1.1" gives 1.1, "h2" gives 2, the empty and every other string 1.1.
\* A factory that got as far as constructing the engine has chosen a version.
C10_VersionFromAlpn ==
    f_done =>
       /\ f_out.version # "none" =>
             f_out.version = ClaimedVersion(f_in.is_using_tls, f_in.channel.alpn)
       /\ f_out.ok \/ f_out.fatal => f_out.version # "none"
       /\ f_out.ok => f_out.connection.http_version = f_out.version

\* TLS with an unrecognised protocol that starts like a known one.
C10_Witness ==
    /\ f_done
    /\ f_in.is_using_tls
    /\ f_in.channel.alpn = <<104, 50, 99>>
    /\ f_out.ok
    /\ f_out.connection.http_version = AWS_HTTP_VERSION_1_1

\* The factory returned null after it had allocated the slot.
FailedWithSlot ==
    f_done /\ ~f_out.ok /\ ~f_out.fatal /\ f_in.env.fault # "slot_new"

\* C17: on every failure exit of the factory after the slot was allocated the
\* factory returns null with an error raised, the new slot is removed (the
\* pipeline is as it was given), an engine is destroyed exactly when one was
\* constructed and not bound, and no channel hold is taken.
C17_FactoryUnwinds ==
    FailedWithSlot =>
        /\ f_out.connection = NoConnection
        /\ IsError(f_out.last_error)
        /\ f_out.slot_removed
        /\ f_out.channel.slots = f_in.channel.slots
        /\ f_out.channel.holds = f_in.channel.holds
        /\ f_out.channel.shutdown = f_in.channel.shutdown
        /\ f_out.handler_destroyed <=>
               (f_in.env.fault = "slot_set_handler"
                   /\ f_out.version = AWS_HTTP_VERSION_1_1)
        /\ f_uses = 0

\* Binding the handler failed on a TLS channel: the engine was destroyed and
\* the slot removed.
C17_Witness ==
    /\ FailedWithSlot
    /\ f_in.is_using_tls
    /\ f_in.env.fault = "slot_set_handler"
    /\ f_out.handler_destroyed
    /\ f_out.channel.slots = <<"socket", "tls">>

\* C18: while the factory's connection is in use the new slot is the last
\* slot of the pipeline with the HTTP handler bound, channel_slot is that
\* slot, the connection holds one channel hold that goes with its last
\* reference, and it is returned with refcount 1.
C18_ConnectionInstalled ==
    (f_done /\ f_out.ok) =>
        /\ f_out.channel.slots = Append(f_in.channel.slots, "http")
        /\ f_out.connection.channel_slot = Len(f_out.channel.slots)
        /\ f_out.connection.channel_slot # 0
        /\ f_uses = 0 => f_out.connection.refcount = 1
        /\ f_out.connection.refcount >= 1 =>
               f_out.channel.holds = f_in.channel.holds + 1
        /\ f_out.connection.refcount = 0 =>
               f_out.channel.holds = f_in.channel.holds

\* A connection on a TLS channel whose last reference has been released.
C18_Witness ==
    /\ f_done /\ f_out.ok
    /\ f_in.is_using_tls
    /\ f_uses > 0
    /\ f_out.connection.refcount = 0
    /\ f_out.connection.channel_slot = 3

\* The factory got as far as choosing the version.
VersionChosen ==
    /\ f_in.env.fault \notin {"slot_new", "slot_insert_end"}
    /\ f_in.is_using_tls =>
          /\ Len(f_in.channel.slots) >= 1
          /\ f_in.channel.slots[Len(f_in.channel.slots)] # "none"

\* C19: the fatal assertion fires exactly when the factory selects version 2,
\* that is with TLS in use and the negotiated protocol "h2"; no connection of
\* version 2 is constructed, and get_version of a returned connection is 1.1.
C19_Http2IsFatal ==
    f_done =>
        /\ f_out.fatal <=> f_out.version = AWS_HTTP_VERSION_2
        /\ f_out.fatal <=>
               (VersionChosen /\ f_in.is_using_tls /\ f_in.channel.alpn = <<104, 50>>)
        /\ f_out.fatal => f_out.connection = NoConnection
        /\ f_out.ok =>
               aws_http_connection_get_version(f_out.connection) = AWS_HTTP_VERSION_1_1

\* The assertion fired for a server connection that negotiated "h2".
C19_Witness ==
    /\ f_done
    /\ f_out.fatal
    /\ f_in.is_server
    /\ f_in.channel.alpn = <<104, 50>>

-----------------------------------------------------------------------------
(* Server path                                                             *)

\* The listener-destroy callback has run the teardown.
TornDown == listener.destroyed

\* Channel c was accepted and its accept-shutdown callback has not finished.
ShutdownPending(c) == srv_pc[c] \notin {"unborn", "no_channel", "done"}

\* The calls of cb recorded for channel c.
CallsOf(c, cb) == {i \in 1..Len(srv_events[c]) : srv_events[c][i].cb = cb}

\* C3 as the specification words it: every server that server_new returned
\* gets exactly one on_destroy_complete from its teardown, and none of its
\* accepted channels has its accept-shutdown callback still to run then.
C3_Original ==
    /\ srv_calls.on_destroy_complete <= 1
    /\ TornDown => srv_calls.on_destroy_complete = 1
    /\ ~TornDown => srv_calls.on_destroy_complete = 0
    /\ srv_calls.on_destroy_complete >= 1 => \A c \in Channels : ~ShutdownPending(c)

\* C3: a server that server_new returned and that was given an
\* on_destroy_complete callback gets exactly one call of it, made by the
\* teardown, and no accepted channel's accept-shutdown callback is still to
\* run at that time; a server given no callback gets no call.
C3_OnDestroyCompleteOnce ==
    /\ srv_calls.on_destroy_complete <= 1
    /\ (TornDown /\ server.on_destroy_complete) => srv_calls.on_destroy_complete = 1
    /\ (~TornDown \/ ~server.on_destroy_complete) => srv_calls.on_destroy_complete = 0
    /\ srv_calls.on_destroy_complete >= 1 =>
          /\ new_pc = "returned"
          /\ \A c \in Channels : ~ShutdownPending(c)

C3_Witness ==
    /\ srv_calls.on_destroy_complete = 1
    /\ \E c \in Channels : srv_pc[c] = "done" /\ srv_calls.removes[c] = 1

\* C4 as the specification words it: however many server_release calls are
\* made on a server, the flag is set once, one call at most asks the
\* registered channels to shut down, the listener is destroyed at most once
\* and no call touches the server after it was freed.
C4_Original ==
    /\ srv_calls.flag_set <= 1
    /\ srv_calls.destroy_socket_listener <= 1
    /\ Cardinality({r \in Releases : rel_local[r].iter # {}}) <= 1
    /\ Cardinality({r \in Releases : rel_pc[r] = "destroy"}) <= 1
    /\ ~srv_calls.use_after_free

\* A second server_release that reached the lock after the teardown read the
\* flag from freed memory and asked for the listener's destruction again.
C4_Witness ==
    /\ srv_calls.use_after_free
    /\ srv_calls.destroy_socket_listener = 2
    /\ \A r \in Releases : rel_pc[r] = "done"

\* C6: while is_shutting_down is true no accept-setup callback adds a
\* registry entry, and whenever the flag is true and the lock is free every
\* channel in the registry has had a shutdown requested.
C6_NoAdmissionWhileShuttingDown ==
    /\ [](server.memory = "live" /\ server.is_shutting_down /\ lock = LockFree
            => \A e \in channel_to_connection_map : srv_channel[e.key].shutdown # <<>>)
    /\ [][server.is_shutting_down =>
            MapKeys(channel_to_connection_map') \subseteq
                MapKeys(channel_to_connection_map)]_vars

\* One channel is in the registry, shut down by server_release, and another
\* was refused by accept-setup because the server is shutting down.
C6_Witness ==
    /\ server.memory = "live" /\ server.is_shutting_down /\ lock = LockFree
    /\ \E e \in channel_to_connection_map :
          AWS_ERROR_HTTP_CONNECTION_CLOSED \in
              {srv_channel[e.key].shutdown[i] : i \in 1..Len(srv_channel[e.key].shutdown)}
    /\ \E c \in Channels :
          /\ srv_local[c].error_code = AWS_ERROR_HTTP_CONNECTION_CLOSED
          /\ srv_local[c].connection # 0
          /\ c \notin MapKeys(channel_to_connection_map)
          /\ srv_calls.puts[c] = 0

\* C7: the registry holds the entry of an accepted channel exactly from the
\* insertion in accept-setup to the removal in accept-shutdown: inserted at
\* most once, removed at most once, mapped to the channel's connection, never
\* there before the connection was built or after accept-shutdown has run.
C7_RegistryInterval ==
    /\ Cardinality(channel_to_connection_map) =
           Cardinality(MapKeys(channel_to_connection_map))
    /\ \A e \in channel_to_connection_map : e.value = srv_local[e.key].connection
    /\ \A c \in Channels :
          /\ srv_calls.puts[c] <= 1
          /\ srv_calls.removes[c] <= 1
          /\ c \in MapKeys(channel_to_connection_map) <=>
                 (srv_calls.puts[c] = 1 /\ srv_calls.removes[c] = 0)
          /\ c \in MapKeys(channel_to_connection_map) =>
                 /\ srv_conn[c].exists
                 /\ srv_local[c].connection = c
                 /\ srv_pc[c] \in {"in_user_cb", "error", "setup_returned",
                                   "shutdown_critical"}
          /\ srv_calls.puts[c] = 1 => srv_pc[c] \notin {"unborn", "want_lock", "critical"}
          /\ srv_pc[c] \in {"shutdown_notify", "done"} =>
                 srv_calls.removes[c] = srv_calls.puts[c]

\* One channel's entry has been inserted and removed again while another
\* channel's entry is still in the registry.
C7_Witness ==
    \E c, d \in Channels :
        /\ srv_calls.puts[c] = 1 /\ srv_calls.removes[c] = 1 /\ srv_pc[c] = "done"
        /\ d \in MapKeys(channel_to_connection_map)

\* The error path of accept-setup has run for channel c, entered because the
\* connection was unconfigured when on_incoming_connection(connection, 0)
\* returned.
ReactionRequiredHandled(c) == srv_local[c].unconfigured /\ srv_pc[c] # "error"

\* C9: a connection left unconfigured when on_incoming_connection(connection,
\* 0) returns makes the error code reaction-required, the channel is asked to
\* shut down with that code, the connection is released, and
\* on_incoming_connection is not called a second time for the channel.
C9_UnconfiguredIsShutDown ==
    \A c \in Channels :
        /\ srv_local[c].unconfigured =>
              /\ srv_local[c].last_error = AWS_ERROR_HTTP_REACTION_REQUIRED
              /\ Cardinality(CallsOf(c, "on_incoming_connection")) = 1
              /\ srv_events[c][1] =
                     Event("on_incoming_connection", c, AWS_ERROR_SUCCESS)
        /\ ReactionRequiredHandled(c) =>
              /\ srv_local[c].error_code = AWS_ERROR_HTTP_REACTION_REQUIRED
              /\ \E i \in 1..Len(srv_channel[c].shutdown) :
                    srv_channel[c].shutdown[i] = AWS_ERROR_HTTP_REACTION_REQUIRED
              /\ srv_conn[c].refcount = 0
              /\ srv_channel[c].holds = 0

\* The user called configure_server in the callback, the call failed, and
\* the channel went through the reaction-required path to its end.
C9_Witness ==
    \E c \in Channels :
        /\ srv_local[c].unconfigured
        /\ srv_local[c].configure_calls = 1
        /\ srv_pc[c] = "done"
        /\ srv_calls.removes[c] = 1

\* The accept-setup callback of channel c has returned.
AcceptSetupReturned(c) ==
    srv_pc[c] \in {"setup_returned", "shutdown_critical", "shutdown_notify", "done",
                   "no_channel"}

\* C14: the per-connection on_shutdown is invoked at most once, by the
\* accept-shutdown callback of a channel it found in the registry, for a
\* connection the user configured with that callback, after
\* on_incoming_connection(connection, 0) was invoked and returned; an
\* accept-shutdown that does not find the channel invokes no user callback.
C14_OnShutdownAfterIncoming ==
    \A c \in Channels :
        /\ Cardinality(CallsOf(c, "on_shutdown")) <= 1
        /\ \A i \in CallsOf(c, "on_shutdown") :
              /\ i = 2
              /\ srv_events[c][1] = Event("on_incoming_connection", c, AWS_ERROR_SUCCESS)
              /\ srv_events[c][i].connection = c
              /\ srv_conn[c].on_shutdown # "NULL"
              /\ srv_local[c].was_present
              /\ srv_calls.removes[c] = 1
              /\ srv_pc[c] = "done"
        /\ (srv_pc[c] = "done" /\ ~srv_local[c].was_present) =>
              /\ Len(srv_events[c]) = 1
              /\ srv_events[c][1].cb = "on_incoming_connection"
              /\ srv_events[c][1].connection = 0

\* One channel's on_shutdown ran after its on_incoming_connection; another
\* channel, refused at setup, went through accept-shutdown with no callback.
C14_Witness ==
    \E c, d \in Channels :
        /\ Len(srv_events[c]) = 2
        /\ srv_events[c][2].cb = "on_shutdown"
        /\ srv_pc[d] = "done"
        /\ ~srv_local[d].was_present
        /\ srv_channel[d].exists

\* C16: an accept-setup callback that returns has invoked
\* on_incoming_connection exactly once: with (connection, 0) iff the
\* bootstrap reported no error, the factory built a connection, the flag
\* was clear under the lock and the insertion succeeded; otherwise with
\* (null, err), err != 0, connection-closed when the flag stopped a built
\* connection, and then the channel (if any) was asked to shut down with err
\* and the connection (if built) released.
C16_IncomingConnectionOnce ==
    \A c \in Channels :
        /\ Cardinality(CallsOf(c, "on_incoming_connection")) <= 1
        /\ srv_pc[c] = "in_user_cb" =>
              srv_events[c] = <<Event("on_incoming_connection", c, AWS_ERROR_SUCCESS)>>
        /\ AcceptSetupReturned(c) =>
              /\ Cardinality(CallsOf(c, "on_incoming_connection")) = 1
              /\ srv_events[c][1].cb = "on_incoming_connection"
              /\ srv_events[c][1] = Event("on_incoming_connection", c, AWS_ERROR_SUCCESS)
                    <=> /\ srv_channel[c].exists
                        /\ srv_local[c].connection # 0
                        /\ ~srv_local[c].saw_shutting_down
                        /\ ~srv_local[c].put_err
              /\ srv_events[c][1].connection = 0 =>
                    LET err == srv_events[c][1].error_code
                    IN  /\ IsError(err)
                        /\ srv_events[c][1] = Event("on_incoming_connection", 0, err)
                        /\ (srv_local[c].connection # 0 /\ srv_local[c].saw_shutting_down)
                              => err = AWS_ERROR_HTTP_CONNECTION_CLOSED
                        /\ srv_channel[c].exists =>
                              /\ Len(srv_channel[c].shutdown) >= 1
                              /\ srv_channel[c].shutdown[1] = err
                        /\ srv_local[c].connection # 0 =>
                              /\ srv_conn[c].refcount = 0
                              /\ srv_channel[c].holds = 0

\* The four error outcomes side by side are not needed: one channel refused
\* because the insertion failed, another admitted.
C16_Witness ==
    \E c, d \in Channels :
        /\ AcceptSetupReturned(c)
        /\ srv_local[c].put_err
        /\ srv_events[c][1] = Event("on_incoming_connection", 0, AWS_ERROR_OOM)
        /\ srv_conn[c].refcount = 0
        /\ AcceptSetupReturned(d)
        /\ srv_events[d][1] = Event("on_incoming_connection", d, AWS_ERROR_SUCCESS)

\* C20: an accept-setup callback never finds server->socket unset: it reads
\* the field only after it has taken the lock, which server_new holds from
\* before the listener exists until the field is assigned.
C20_SocketSetBeforeRead ==
    /\ \A c \in Channels :
          /\ srv_local[c].socket_read \in {"unread", "set"}
          /\ srv_local[c].socket_read # "unread" =>
                srv_pc[c] \notin {"unborn", "want_lock", "critical"}
          /\ (srv_pc[c] = "want_lock" /\ new_pc = "in_bootstrap") => lock = NewThread
    /\ new_pc \in {"in_bootstrap", "socket_assigned"} => lock = NewThread
    /\ (server.memory = "live" /\ ~server.socket /\ listener.exists) => lock = NewThread

\* An accept-setup callback has read the socket while aws_http_server_new,
\* past its unlock, has not yet returned.
C20_Witness ==
    \E c \in Channels :
        /\ new_pc = "unlocked"
        /\ srv_local[c].socket_read = "set"

\* The errors of the channel runtime that reach on_setup and
\* on_incoming_connection: a client setup error e gives on_setup(null, e)
\* and nothing else ever; a server accept-setup error e gives
\* on_incoming_connection(null, e) and nothing else ever.
SetupErrorsPassThrough ==
    /\ \A a \in Attempts :
          cl_pc[a] = "setup_failed" =>
             /\ IsError(cl_setup_error[a])
             /\ cl_events[a] = <<Event("on_setup", 0, cl_setup_error[a])>>
    /\ \A c \in Channels :
          (AcceptSetupReturned(c) /\ ~srv_channel[c].exists) =>
             /\ IsError(srv_local[c].error_code)
             /\ srv_events[c] =
                   <<Event("on_incoming_connection", 0, srv_local[c].error_code)>>

\* The accept-shutdown callback of channel c has run and found the channel
\* in the registry.
AcceptShutdownFound(c) == srv_pc[c] = "done" /\ srv_local[c].was_present

\* C23 as stated: error codes of the channel runtime reach the user callback
\* unchanged, and every shutdown error e after a successful setup gives
\* on_shutdown(conn, e), on the client and on the server.
C23_Original ==
    /\ SetupErrorsPassThrough
    /\ \A a \in Attempts :
          ShutDownAfterSetup(a) =>
             cl_events[a] = <<Event("on_setup", a, AWS_ERROR_SUCCESS),
                              Event("on_shutdown", a, cl_shutdown_error[a])>>
    /\ \A c \in Channels :
          AcceptShutdownFound(c) =>
             srv_events[c] =
                <<Event("on_incoming_connection", c, AWS_ERROR_SUCCESS),
                  Event("on_shutdown", c, srv_local[c].shutdown_error_code)>>

\* C23: error codes of the channel runtime reach the user callback
\* unchanged: setup errors as above; a shutdown error e after a successful
\* setup gives on_shutdown(conn, e), e = 0 included, when the user provided
\* an on_shutdown callback (client options, server connection options), and
\* no callback at all when the user provided none.
C23_ErrorsPassThrough ==
    /\ SetupErrorsPassThrough
    /\ \A a \in Attempts :
          ShutDownAfterSetup(a) =>
             cl_events[a] =
                <<Event("on_setup", a, AWS_ERROR_SUCCESS)>>
                \o (IF http_bootstrap[a].on_shutdown
                    THEN <<Event("on_shutdown", a, cl_shutdown_error[a])>>
                    ELSE <<>>)
    /\ \A c \in Channels :
          AcceptShutdownFound(c) =>
             srv_events[c] =
                <<Event("on_incoming_connection", c, AWS_ERROR_SUCCESS)>>
                \o (IF srv_conn[c].on_shutdown # "NULL"
                    THEN <<Event("on_shutdown", c, srv_local[c].shutdown_error_code)>>
                    ELSE <<>>)

\* A client on_shutdown(conn, 0) and a server on_shutdown(conn, e) with e
\* non-zero have both been observed.
C23_Witness ==
    /\ \E a \in Attempts :
          /\ ShutDownAfterSetup(a)
          /\ Len(cl_events[a]) = 2
          /\ cl_events[a][2] = Event("on_shutdown", a, AWS_ERROR_SUCCESS)
    /\ \E c \in Channels :
          /\ AcceptShutdownFound(c)
          /\ Len(srv_events[c]) = 2
          /\ srv_events[c][2].cb = "on_shutdown"
          /\ IsError(srv_events[c][2].error_code)

\* server_release has been called on a server that server_new returned.
ReleaseBegun == new_pc = "returned" /\ \E r \in Releases : rel_pc[r] # "idle"

\* Every channel that was in the registry has had its accept-shutdown
\* callback, the registry is empty and the listener-destroy callback has run.
GracefulShutdownDone ==
    /\ \A c \in Channels : srv_calls.puts[c] >= 1 => srv_pc[c] = "done"
    /\ channel_to_connection_map = {}
    /\ TornDown

\* C26 as stated: after the first server_release, every channel that was in
\* the registry eventually gets its accept-shutdown callback, the registry
\* eventually becomes empty and on_destroy_complete eventually fires.
C26_Original ==
    ReleaseBegun ~> (GracefulShutdownDone /\ srv_calls.on_destroy_complete = 1)

\* C26: after the first server_release, unless the process dies in the
\* factory's HTTP/2 assertion, every channel that was in the registry
\* eventually gets its accept-shutdown callback, the registry eventually
\* becomes empty and the teardown eventually runs, which calls
\* on_destroy_complete if the user gave one.
C26_GracefulShutdownCompletes ==
    ReleaseBegun ~>
        \/ ~Running
        \/ /\ GracefulShutdownDone
           /\ server.on_destroy_complete => srv_calls.on_destroy_complete = 1

\* A channel the release asked to shut down has had its accept-shutdown
\* callback, the registry is empty and on_destroy_complete has fired.
C26_Witness ==
    /\ ReleaseBegun
    /\ GracefulShutdownDone
    /\ srv_calls.on_destroy_complete = 1
    /\ \E c \in Channels :
          /\ srv_calls.puts[c] = 1
          /\ srv_pc[c] = "done"
          /\ AWS_ERROR_HTTP_CONNECTION_CLOSED \in
                {srv_channel[c].shutdown[i] : i \in 1..Len(srv_channel[c].shutdown)}

\* C27 as stated: the server that server_new returned is torn down only in
\* the listener-destroy callback, which calls on_destroy_complete and then
\* frees the registry, the mutex and the memory; once the memory is released
\* no accept-setup, accept-shutdown or server_release reads or writes the
\* server's state again.
C27_Original ==
    /\ (server.memory = "freed" /\ new_pc = "returned") =>
          /\ TornDown
          /\ channel_to_connection_map = {}
          /\ server.on_destroy_complete => srv_calls.on_destroy_complete = 1
          /\ \A c \in Channels : ~ShutdownPending(c)
    /\ ~srv_calls.use_after_free

\* A server_release call stands in its critical section on a server whose
\* memory the listener-destroy callback has released.
C27_Witness ==
    /\ server.memory = "freed"
    /\ TornDown
    /\ srv_calls.use_after_free
    /\ \E r \in Releases : rel_pc[r] = "critical"

\* The teardown itself is as claimed: only listener-destroy frees a server
\* that server_new returned, after on_destroy_complete, and no accept
\* callback runs or starts afterwards.
C27_TeardownInListenerDestroy ==
    /\ (server.memory = "freed" /\ new_pc = "returned") =>
          /\ TornDown
          /\ channel_to_connection_map = {}
          /\ server.on_destroy_complete => srv_calls.on_destroy_complete = 1
          /\ \A c \in Channels : ~ShutdownPending(c)
    /\ srv_calls.use_after_free =>
          \E r \in Releases : rel_pc[r] \in {"critical", "shutdown_channels", "destroy", "done"}

\* C28: whenever server_new returns null no server remains: with a missing
\* mandatory option it raises invalid-argument, calls no bootstrap function
\* and allocates nothing; when the listener cannot be created the registry,
\* the mutex and the memory are released with the lock free again; and in
\* both cases on_destroy_complete and on_incoming_connection are never
\* invoked and a later server_release(NULL) does nothing.
C28_FailedServerNewLeavesNothing ==
    /\ new_pc = "invalid_argument" =>
          /\ server = NoServer
          /\ srv_calls.new_socket_listener = 0
          /\ srv_calls.new_last_error = AWS_ERROR_INVALID_ARGUMENT
    /\ new_pc = "failed" =>
          /\ server.memory \in {"none", "freed"}
          /\ IsError(srv_calls.new_last_error)
          /\ srv_calls.new_socket_listener = 1 => server.memory = "freed"
    /\ new_pc \in {"invalid_argument", "failed"} =>
          /\ ~listener.exists
          /\ lock = LockFree
          /\ channel_to_connection_map = {}
          /\ srv_calls.on_destroy_complete = 0
          /\ srv_calls.destroy_socket_listener = 0
          /\ ~srv_calls.use_after_free
          /\ \A c \in Channels : srv_events[c] = <<>> /\ srv_pc[c] = "unborn"
          /\ \A r \in Releases : rel_pc[r] \in {"idle", "done"}

\* The listener could not be created, server_new released the server and
\* returned null, and the user has called server_release on that null.
C28_Witness ==
    /\ new_pc = "failed"
    /\ srv_calls.new_socket_listener = 1
    /\ server.memory = "freed"
    /\ \E r \in Releases : rel_pc[r] = "done"

\* The error path of accept-setup has released the reference of the
\* connection it built for channel c.
CoreReleased(c) ==
    /\ srv_local[c].connection # 0
    /\ srv_pc[c] \in {"setup_returned", "shutdown_critical", "shutdown_notify", "done"}
    /\ srv_local[c].unconfigured \/ ~srv_local[c].user_cb_invoked

\* What the reference counts are made of, whoever releases what: one
\* reference from the factory, plus the acquires, minus the releases.
RefcountBalance ==
    /\ \A c \in Channels :
          srv_conn[c].refcount =
             (IF srv_conn[c].exists THEN 1 ELSE 0) + srv_calls.user_acquires[c]
             - srv_calls.user_releases[c] - (IF CoreReleased(c) THEN 1 ELSE 0)
    /\ \A a \in Attempts : cl_conn[a].refcount = cl_user_refs[a]

\* No release found the count at zero, and the 1->0 transition with its
\* channel-hold release happened once for every connection whose count is 0.
ReleasedOnceEach(c) ==
    /\ ~srv_calls.release_at_zero[c]
    /\ srv_conn[c].refcount >= 0
    /\ srv_calls.final_releases[c] <= 1
    /\ srv_calls.final_releases[c] = 1 <=> (srv_conn[c].exists /\ srv_conn[c].refcount = 0)
    /\ srv_conn[c].exists =>
          srv_channel[c].holds = (IF srv_conn[c].refcount = 0 THEN 0 ELSE 1)

\* The same for the client connection of attempt a, which only the user
\* releases.
ClientReleasedOnce(a) ==
    /\ cl_conn[a].refcount >= 0
    /\ cl_conn[a].exists =>
          cl_channel[a].holds = (IF cl_conn[a].refcount = 0 THEN 0 ELSE 1)

\* C29 as stated: with a user that releases each handle it received through
\* on_setup(conn, 0) or on_incoming_connection(conn, 0) once more than it
\* acquired it, no release finds the count at zero and the 1->0 transition
\* happens once per connection, a server connection left unconfigured
\* included.
C29_Original ==
    /\ RefcountBalance
    /\ \A a \in Attempts : ClientReleasedOnce(a)
    /\ \A c \in Channels : ReleasedOnceEach(c)

\* C29: the same, for a user that releases a server connection it left
\* unconfigured only as often as it acquired it, and does not acquire it
\* once its count is zero: the reference that on_incoming_connection(conn, 0)
\* handed over is then released by the core itself, and a user release of
\* it is a second release.
C29_BalancedReleases ==
    /\ RefcountBalance
    /\ \A a \in Attempts : ClientReleasedOnce(a)
    /\ \A c \in Channels :
          (srv_local[c].unconfigured =>
               /\ srv_calls.user_releases[c] <= srv_calls.user_acquires[c]
               /\ ~srv_calls.acquire_at_zero[c])
          => ReleasedOnceEach(c)

\* A server connection was left unconfigured; the user had acquired it once
\* and released it once, the core released the reference it had handed over,
\* and the count went from 1 to 0 once.  A client connection was released by
\* its user.
C29_Witness ==
    /\ \E c \in Channels :
          /\ srv_local[c].unconfigured
          /\ CoreReleased(c)
          /\ srv_calls.user_acquires[c] = 1
          /\ ~srv_calls.acquire_at_zero[c]
          /\ srv_calls.user_releases[c] = 1
          /\ srv_calls.final_releases[c] = 1
          /\ srv_conn[c].refcount = 0
    /\ \E a \in Attempts :
          /\ cl_conn[a].exists
          /\ cl_conn[a].refcount = 0

\* The per-connection on_shutdown of channel c's connection has been invoked.
OnShutdownInvoked(c) == CallsOf(c, "on_shutdown") # {}

\* C30 as stated: on_shutdown is invoked only for a connection that
\* configure_server configured before on_incoming_connection returned; a
\* connection shut down with reaction-required for being unconfigured never
\* gets an on_shutdown callback, whatever the user calls afterwards.
C30_Original ==
    \A c \in Channels : OnShutdownInvoked(c) => ~srv_local[c].unconfigured

\* The part of C30 that the code keeps: a connection left unconfigured gets
\* no on_shutdown callback as long as the user does not configure it after
\* the callback returned.
C30_NoShutdownUnlessConfiguredLate ==
    \A c \in Channels :
        (OnShutdownInvoked(c) /\ srv_local[c].unconfigured) =>
            srv_calls.late_configures[c] >= 1

\* The callback returned without configuring the connection, the channel was
\* shut down with reaction-required, the user then called configure_server,
\* which succeeded, and the accept-shutdown callback invoked on_shutdown.
C30_Witness ==
    \E c \in Channels :
        /\ srv_local[c].unconfigured
        /\ srv_local[c].error_code = AWS_ERROR_HTTP_REACTION_REQUIRED
        /\ srv_calls.late_configures[c] = 1
        /\ srv_conn[c].on_incoming_request # "NULL"
        /\ OnShutdownInvoked(c)

\* The thread a server_release call runs on: the thread of the callback it
\* was made in, or a thread of the user's.
ThreadOfRelease(r) ==
    IF rel_local[r].caller = 0 THEN ReleaseThread(r)
    ELSE AcceptThread(rel_local[r].caller)

\* The thread that runs the accept callbacks of channel c holds the mutex,
\* in the callback's own code or in a server_release call made on it.
HeldByAcceptThread(c) ==
    \/ lock = AcceptThread(c)
    \/ \E r \in Releases : lock = ReleaseThread(r) /\ rel_local[r].caller = c

\* The core does not hold the mutex where it invokes a user callback:
\* on_incoming_connection with a connection or with an error, the
\* per-connection on_shutdown, and on_destroy_complete in the teardown.
NoCallbackUnderLock ==
    /\ \A c \in Channels :
          srv_pc[c] \in {"in_user_cb", "error", "shutdown_notify"} =>
              lock # AcceptThread(c)
    /\ ENABLED s_server_bootstrap_on_server_listener_destroy =>
          \A c \in Channels : ~HeldByAcceptThread(c)

\* No thread asks for the mutex while it holds it.
NoRelock ==
    /\ \A c \in Channels :
          srv_pc[c] \in {"want_lock", "setup_returned"} => ~HeldByAcceptThread(c)
    /\ \A r \in Releases :
          (rel_pc[r] = "want_lock" /\ rel_local[r].caller # 0) =>
              ~HeldByAcceptThread(rel_local[r].caller)

\* Whoever holds the mutex can take its next step, which needs nothing that
\* another thread has: the mutex is given back.
HolderNotBlocked ==
    Running =>
        /\ lock = NewThread =>
              ENABLED (aws_http_server_new_assign_socket \/ aws_http_server_new_unlock)
        /\ \A c \in Channels :
              lock = AcceptThread(c) =>
                  ENABLED (accept_setup_critical(c) \/ accept_shutdown_remove(c))
        /\ \A r \in Releases :
              lock = ReleaseThread(r) =>
                  ENABLED (server_release_critical(r) \/ server_release_shutdown_channels(r))

\* No server_release call is stuck in s_server_lock_synced_data for good.
NoReleaseHung == \A r \in Releases : rel_pc[r] # "hung"

\* C31 as stated: the thread that runs a user callback does not hold the
\* server mutex, no thread asks for the mutex while it holds it, a holder is
\* never blocked, and so no interleaving of server_release, accept-setup and
\* accept-shutdown, server_release inside a callback included, leaves a
\* thread stuck on the server lock.
C31_Original ==
    /\ NoCallbackUnderLock
    /\ NoRelock
    /\ HolderNotBlocked
    /\ NoReleaseHung

\* The part of C31 that the code keeps: the discipline of the critical
\* sections; a server_release call can be stuck only on a mutex that the
\* teardown has destroyed.
C31_LockDiscipline ==
    /\ NoCallbackUnderLock
    /\ NoRelock
    /\ HolderNotBlocked
    /\ \A r \in Releases : rel_pc[r] = "hung" => server.memory = "freed"

\* A server_release call made on a second thread passed its NULL test, the
\* first call and the teardown then ran to the end, and the second call is
\* stuck locking the destroyed mutex.
C31_Witness ==
    \E r, q \in Releases :
        /\ rel_pc[q] = "done"
        /\ rel_pc[r] = "hung"
        /\ server.memory = "freed"
        /\ listener.destroyed

\* server_release, called inside on_incoming_connection, holds the mutex.
C31_WitnessInCallback ==
    \E r \in Releases, c \in Channels :
        /\ srv_pc[c] = "in_user_cb"
        /\ rel_local[r].caller = c
        /\ lock = ReleaseThread(r)

-----------------------------------------------------------------------------
(* String utilities                                                        *)

\* The digits of a base, as the specification names them.
IsDigitOf(c, base) ==
    \/ c \in 48..57
    \/ base = 16 /\ (c \in 65..70 \/ c \in 97..102)

DigitValue(c) == IF c \in 48..57 THEN c - 48 ELSE IF c \in 65..70 THEN c - 55 ELSE c - 87

\* The number a digit string denotes, computed without a word width.
RECURSIVE NumericValue(_, _, _)
NumericValue(bytes, base, n) ==
    IF n = 0 THEN 0
    ELSE NumericValue(bytes, base, n - 1) * base + DigitValue(bytes[n])

\* The inputs the specification says are accepted.
Readable(bytes, base) ==
    /\ Len(bytes) > 0
    /\ \A i \in 1..Len(bytes) : IsDigitOf(bytes[i], base)
    /\ NumericValue(bytes, base, Len(bytes)) <= WordModulus - 1

ReadBase == IF su_pc = "hex" THEN 16 ELSE 10

\* C11 as the specification words it: read_unsigned_num and
\* read_unsigned_hex succeed exactly on the non-empty strings of digits of
\* the base whose value fits the word, store that value on success, and
\* reject every other input with an error.
C11_Original ==
    su_pc \in {"num", "hex"} =>
        /\ su_out.rc = AWS_OP_SUCCESS <=> Readable(su_buf, ReadBase)
        /\ su_out.rc = AWS_OP_SUCCESS =>
               su_out.dst = NumericValue(su_buf, ReadBase, Len(su_buf))
        /\ su_out.rc = AWS_OP_ERR => IsError(su_out.error)

\* A digit string whose value does not fit the word was read with success.
C11_Witness ==
    /\ su_pc \in {"num", "hex"}
    /\ su_out.rc = AWS_OP_SUCCESS
    /\ \A i \in 1..Len(su_buf) : IsDigitOf(su_buf[i], ReadBase)
    /\ NumericValue(su_buf, ReadBase, Len(su_buf)) > WordModulus - 1

\* Reading the digit string, some multiply-by-base or add-digit step leaves
\* the unsigned word range: the value of some prefix does.
StepOverflows(bytes, base) ==
    \E n \in 1..Len(bytes) : NumericValue(bytes, base, n) > WordModulus - 1

\* C24 as stated: read_unsigned_num and read_unsigned_hex report the kind of
\* failure: empty input and input with a byte outside the base's digits
\* fail with invalid-argument; valid digits of which some step leaves the
\* word range fail with overflow-detected, never success with a wrapped
\* value.
C24_Original ==
    su_pc \in {"num", "hex"} =>
        /\ Len(su_buf) = 0 =>
              su_out.rc = AWS_OP_ERR /\ su_out.error = AWS_ERROR_INVALID_ARGUMENT
        /\ (\E i \in 1..Len(su_buf) : ~IsDigitOf(su_buf[i], ReadBase)) =>
              su_out.rc = AWS_OP_ERR /\ su_out.error = AWS_ERROR_INVALID_ARGUMENT
        /\ ((\A i \in 1..Len(su_buf) : IsDigitOf(su_buf[i], ReadBase))
               /\ StepOverflows(su_buf, ReadBase)) =>
              su_out.rc = AWS_OP_ERR /\ su_out.error = AWS_ERROR_OVERFLOW_DETECTED

\* read_unsigned_hex returned success and stored the wrapped value of a digit
\* string that does not fit the word.
C24_Witness ==
    /\ su_pc = "hex"
    /\ \A i \in 1..Len(su_buf) : IsDigitOf(su_buf[i], 16)
    /\ StepOverflows(su_buf, 16)
    /\ su_out.rc = AWS_OP_SUCCESS
    /\ su_out.dst = NumericValue(su_buf, 16, Len(su_buf)) % WordModulus

\* C12: trim_http_whitespace applied to its own result returns the same
\* view, same start and same length.
C12_TrimIdempotent ==
    su_pc = "trimmed_twice" => su_view2 = su_view

\* A non-empty view with whitespace trimmed at both of its ends.
C12_Witness ==
    /\ su_pc = "trimmed_twice"
    /\ su_view.ptr > 0
    /\ su_view.len > 0
    /\ su_view.ptr + su_view.len < Len(su_buf)

\* SP and HT.
IsSpOrHt(c) == c = 32 \/ c = 9

\* C25: trim_http_whitespace(s) is the contiguous sub-view of s left by
\* dropping the longest prefix and the longest suffix made only of SP and HT:
\* the result neither starts nor ends with SP or HT, what is dropped is SP
\* and HT only, the bytes of s are not written, and an input of SP/HT only
\* (or empty) gives an empty view.
C25_TrimIsLongestStrip ==
    /\ [](su_pc \in {"trimmed", "trimmed_twice"} =>
            /\ su_view.ptr >= 0
            /\ su_view.len >= 0
            /\ su_view.ptr + su_view.len <= Len(su_buf)
            /\ \A i \in 1..Len(su_buf) :
                  (i <= su_view.ptr \/ i > su_view.ptr + su_view.len) =>
                      IsSpOrHt(su_buf[i])
            /\ su_view.len > 0 =>
                  /\ ~IsSpOrHt(su_buf[su_view.ptr + 1])
                  /\ ~IsSpOrHt(su_buf[su_view.ptr + su_view.len])
            /\ (\A i \in 1..Len(su_buf) : IsSpOrHt(su_buf[i])) => su_view.len = 0)
    /\ [][su_buf' = su_buf]_vars

\* SP, LF, HT was trimmed to the view of the line feed alone.
C25_Witness ==
    /\ su_pc = "trimmed"
    /\ su_buf = <<32, 10, 9>>
    /\ su_view = [ptr |-> 1, len |-> 1]

====
